---------------------------- MODULE Spec2Model ----------------------------
(***************************************************************************)
(* Zenyx BETA: the conversational session state machine of the bot.        *)
(*                                                                         *)
(* The state is context.user_data of every user (a Python dict: the        *)
(* waiting_for tag, the scratch plan new_plan, the plan list planos).      *)
(* Every handler function of handlers/*.py is one action.  Texts and       *)
(* callback data are sequences of one-character strings, so that the       *)
(* regular expression, float(), int(), startswith() and split() are        *)
(* computed on the characters as the code computes them.                   *)
(*                                                                         *)
(* Four specifications drive the same handler actions:                     *)
(*   Spec       every handler function is invoked directly                 *)
(*   SpecMain   events go through the dispatcher as main() registers it    *)
(*   SpecPreco  the plan-creation flow fed with many price texts           *)
(*   SpecDuracao the plan-creation flow fed with every duration button     *)
(*                                                                         *)
(* The shared dict context.bot_data (validation codes, payments), the      *)
(* clock, the MySQL tables and the User objects of models/user.py are      *)
(* state as well; three more specifications drive them:                    *)
(*   SpecSaldo     User.save, add_balance and remove_balance, where each   *)
(*                 SQL statement may raise MySQLError                      *)
(*   SpecCodigo    the channel validation codes                            *)
(*   SpecPagamento the PIX payment handlers                                *)
(***************************************************************************)
EXTENDS Integers, Sequences, FiniteSets, TLC

(***************************************************************************)
(* Bounds                                                                  *)
(***************************************************************************)
\* longest plan list a user builds before the add-plan flow is no longer driven
MaxPlanos == 1

(***************************************************************************)
(* Characters and texts                                                    *)
(***************************************************************************)
Digit == {"0","1","2","3","4","5","6","7","8","9"}

Upper ==
    {"A","B","C","D","E","F","G","H","I","J","K","L","M",
     "N","O","P","Q","R","S","T","U","V","W","X","Y","Z"}

Lower ==
    {"a","b","c","d","e","f","g","h","i","j","k","l","m",
     "n","o","p","q","r","s","t","u","v","w","x","y","z"}

\* the class [A-Za-z0-9_-] of the token pattern
TokenChar == Upper \cup Lower \cup Digit \cup {"_", "-"}

\* what str.strip() and float()/int() treat as white space
Whitespace == {" ", "\n", "\t"}

DigitValue(c) ==
    CASE c = "0" -> 0 [] c = "1" -> 1 [] c = "2" -> 2 [] c = "3" -> 3
      [] c = "4" -> 4 [] c = "5" -> 5 [] c = "6" -> 6 [] c = "7" -> 7
      [] c = "8" -> 8 [] c = "9" -> 9

\* str.lower() on the letters that the special float words use
ToLower(c) ==
    CASE c = "I" -> "i" [] c = "N" -> "n" [] c = "F" -> "f" [] c = "A" -> "a"
      [] c = "T" -> "t" [] c = "Y" -> "y" [] OTHER -> c

LowerText(s) == [i \in 1..Len(s) |-> ToLower(s[i])]

\* s.startswith(p)
StartsWith(s, p) == Len(s) >= Len(p) /\ SubSeq(s, 1, Len(p)) = p

\* s.replace(a, b) for single characters
Replace(s, a, b) == [i \in 1..Len(s) |-> IF s[i] = a THEN b ELSE s[i]]

\* s.split(sep)[-1]: the part after the last separator (all of s when none)
LastPart(s, sep) ==
    LET idx == {i \in 1..Len(s) : s[i] = sep}
        last == IF idx = {} THEN 0 ELSE CHOOSE i \in idx : \A j \in idx : j <= i
    IN  SubSeq(s, last + 1, Len(s))

\* s.strip()
Strip(s) ==
    LET keep == {i \in 1..Len(s) : s[i] \notin Whitespace}
    IN  IF keep = {} THEN <<>>
        ELSE SubSeq(s, CHOOSE i \in keep : \A j \in keep : i <= j,
                       CHOOSE i \in keep : \A j \in keep : j <= i)

(***************************************************************************)
(* Python dicts: functions whose domain is the set of keys present         *)
(***************************************************************************)
EmptyDict == [k \in {} |-> 0]

Has(d, k) == k \in DOMAIN d

\* d.get(k, default)
Get(d, k, default) == IF k \in DOMAIN d THEN d[k] ELSE default

\* d[k] = v
Put(d, k, v) == [x \in (DOMAIN d) \cup {k} |-> IF x = k THEN v ELSE d[x]]

\* d.pop(k, None)
Pop(d, k) == [x \in (DOMAIN d) \ {k} |-> d[x]]


(***************************************************************************)
(* Parsing, as the Python built-ins do it                                  *)
(***************************************************************************)
\* digitpart ::= digit (["_"] digit)*   (the digit groups of int() and float())
IsDigitPart(s) ==
    /\ Len(s) > 0
    /\ \A i \in 1..Len(s) : s[i] \in Digit \cup {"_"}
    /\ s[1] \in Digit
    /\ s[Len(s)] \in Digit
    /\ \A i \in 1..(Len(s) - 1) : ~(s[i] = "_" /\ s[i + 1] = "_")

\* the digits of a digitpart, underscores dropped
DigitsOf(s) == SelectSeq(s, LAMBDA c : c \in Digit)

RECURSIVE NatOf(_)
\* the number a digit sequence denotes
NatOf(ds) ==
    IF ds = <<>> THEN 0
    ELSE 10 * NatOf(SubSeq(ds, 1, Len(ds) - 1)) + DigitValue(ds[Len(ds)])

\* index of the first character of s that is in cs, 0 when there is none
FirstIndex(s, cs) ==
    LET idx == {i \in 1..Len(s) : s[i] \in cs}
    IN  IF idx = {} THEN 0 ELSE CHOOSE i \in idx : \A j \in idx : i <= j

HasSign(s) == Len(s) > 0 /\ s[1] \in {"+", "-"}

Unsigned(s) == IF HasSign(s) THEN SubSeq(s, 2, Len(s)) ELSE s

\* int(text): ok = FALSE stands for ValueError
IntOf(text) ==
    LET s    == Strip(text)
        body == Unsigned(s)
    IN  IF IsDigitPart(body)
        THEN [ok |-> TRUE,
              val |-> IF HasSign(s) /\ s[1] = "-" THEN 0 - NatOf(DigitsOf(body))
                      ELSE NatOf(DigitsOf(body))]
        ELSE [ok |-> FALSE, val |-> 0]

RECURSIVE Normalise(_, _)
\* a decimal mant * 10^(-scale) in lowest terms: equal values, equal records
Normalise(mant, scale) ==
    IF mant = 0 THEN [mant |-> 0, scale |-> 0]
    ELSE IF scale > 0 /\ mant % 10 = 0 THEN Normalise(mant \div 10, scale - 1)
    ELSE IF scale < 0 THEN Normalise(mant * 10, scale + 1)
    ELSE [mant |-> mant, scale |-> scale]

FloatError == [kind |-> "error", neg |-> FALSE, mant |-> 0, scale |-> 0]

FloatSpecial(k, n) == [kind |-> k, neg |-> n, mant |-> 0, scale |-> 0]

FloatNum(n, mant, scale) ==
    LET v == Normalise(mant, scale)
    IN  [kind |-> "num", neg |-> n, mant |-> v.mant, scale |-> v.scale]

\* float(text): kind "error" stands for ValueError.  A number is kept as the
\* exact decimal it denotes (the texts used stay far inside the range and
\* precision of a double, where the double and the decimal compare alike).
FloatOf(text) ==
    LET s     == Strip(text)
        neg   == HasSign(s) /\ s[1] = "-"
        body  == Unsigned(s)
        word  == LowerText(body)
        epos  == FirstIndex(body, {"e", "E"})
        mpart == IF epos = 0 THEN body ELSE SubSeq(body, 1, epos - 1)
        xpart == IF epos = 0 THEN <<>> ELSE SubSeq(body, epos + 1, Len(body))
        xok   == epos = 0 \/ IsDigitPart(Unsigned(xpart))
        exp   == IF epos = 0 \/ ~xok THEN 0 ELSE IntOf(xpart).val
        dot   == FirstIndex(mpart, {"."})
        ip    == IF dot = 0 THEN mpart ELSE SubSeq(mpart, 1, dot - 1)
        fp    == IF dot = 0 THEN <<>> ELSE SubSeq(mpart, dot + 1, Len(mpart))
        mok   == \/ IsDigitPart(ip) /\ (fp = <<>> \/ IsDigitPart(fp))
                 \/ ip = <<>> /\ dot # 0 /\ IsDigitPart(fp)
    IN  IF word \in {<<"i","n","f">>, <<"i","n","f","i","n","i","t","y">>}
        THEN FloatSpecial("inf", neg)
        ELSE IF word = <<"n","a","n">> THEN FloatSpecial("nan", neg)
        ELSE IF mok /\ xok
        THEN FloatNum(neg, NatOf(DigitsOf(ip) \o DigitsOf(fp)),
                      Len(DigitsOf(fp)) - exp)
        ELSE FloatError

\* preco <= 0 on floats: false for nan and +inf, true for -inf, -x and 0
FloatLeZero(f) ==
    CASE f.kind = "nan" -> FALSE
      [] f.kind = "inf" -> f.neg
      [] OTHER -> f.neg \/ f.mant = 0

\* re.match(r'^\d+:[A-Za-z0-9_-]{35}$', text) on the whole of t
TokenFullMatch(t) ==
    LET k == Len(t) - 36
    IN  /\ k >= 1
        /\ \A i \in 1..k : t[i] \in Digit
        /\ t[k + 1] = ":"
        /\ \A i \in (k + 2)..Len(t) : t[i] \in TokenChar

\* re.match with '$': the end of the text, or just before a final newline
TokenMatch(text) ==
    \/ TokenFullMatch(text)
    \/ /\ Len(text) > 0
       /\ text[Len(text)] = "\n"
       /\ TokenFullMatch(SubSeq(text, 1, Len(text) - 1))


(***************************************************************************)
(* Callback data of the buttons the bot shows, and the texts users send    *)
(***************************************************************************)
CbVerificarCanal ==
    <<"v","e","r","i","f","i","c","a","r","_","c","a","n","a","l">>

CbMenuPrincipal ==
    <<"m","e","n","u","_","p","r","i","n","c","i","p","a","l">>

CbCriarBot ==
    <<"c","r","i","a","r","_","b","o","t">>

CbMeuSaldo ==
    <<"m","e","u","_","s","a","l","d","o">>

CbConvite ==
    <<"c","o","n","v","i","t","e">>

CbAdminVip ==
    <<"a","d","m","i","n","_","v","i","p">>

CbComoFunciona ==
    <<"c","o","m","o","_","f","u","n","c","i","o","n","a">>

CbAtivarVip ==
    <<"a","t","i","v","a","r","_","v","i","p">>

CbConfigBot ==
    <<"c","o","n","f","i","g","_","b","o","t">>

CbConfigMensagens ==
    <<"c","o","n","f","i","g","_","m","e","n","s","a","g","e","n","s">>

CbConfigPushinpay ==
    <<"c","o","n","f","i","g","_","p","u","s","h","i","n","p","a","y">>

CbConfigCanal ==
    <<"c","o","n","f","i","g","_","c","a","n","a","l">>

CbConfigMidia ==
    <<"c","o","n","f","i","g","_","m","i","d","i","a">>

CbConfigTexto ==
    <<"c","o","n","f","i","g","_","t","e","x","t","o">>

CbConfigPlanos ==
    <<"c","o","n","f","i","g","_","p","l","a","n","o","s">>

CbVisualizacaoCompleta ==
    <<"v","i","s","u","a","l","i","z","a","c","a","o","_","c","o","m","p","l","e","t","a">>

CbMenuBot ==
    <<"m","e","n","u","_","b","o","t">>

CbRemoverMidia ==
    <<"r","e","m","o","v","e","r","_","m","i","d","i","a">>

CbAdicionarPlano ==
    <<"a","d","i","c","i","o","n","a","r","_","p","l","a","n","o">>

CbGerarCodigoCanal ==
    <<"g","e","r","a","r","_","c","o","d","i","g","o","_","c","a","n","a","l">>

PlanDurationPrefix ==
    <<"p","l","a","n","_","d","u","r","a","t","i","o","n","_">>

TxtMensal ==
    <<"M","e","n","s","a","l">>

Txt19Ponto90 ==
    <<"1","9",".","9","0">>

Txt19Virgula90 ==
    <<"1","9",",","9","0">>

TxtZero ==
    <<"0">>

TxtMenos5 ==
    <<"-","5">>

TxtAbc ==
    <<"a","b","c">>

TxtNan ==
    <<"n","a","n">>

TxtInf ==
    <<"i","n","f">>

Txt1e2 ==
    <<"1","e","2">>

TxtOla ==
    <<"O","l","a">>

Dias1 ==
    <<"1">>

Dias7 ==
    <<"7">>

Dias15 ==
    <<"1","5">>

Dias30 ==
    <<"3","0">>

Dias90 ==
    <<"9","0">>

Dias180 ==
    <<"1","8","0">>

Dias365 ==
    <<"3","6","5">>

Dias9999 ==
    <<"9","9","9","9">>

\* a token that has the format the pattern asks for (digits, colon, 35 chars)
TokenValido ==
    <<"1","2","3","4","5","6","7","8","9",":","A","B","C","D","e","f","G","h","I","J","K","l","m","N","o","P","Q","R","s","T","U","V","w","x","y","Z","0","1","2","3","4","5","6","7","8">>

\* the example token of the create-bot instructions and the invalid-token reply
TokenExemplo ==
    <<"1","2","3","4","5","6","7","8","9",":","A","B","C","D","e","f","G","h","I","J","K","l","m","N","o","P","Q","R","s","T","U","V","w","x","y","Z">>

\* callback_data=f"plan_duration_{n}" of the duration keyboard
CbPlanDuration(dias) == PlanDurationPrefix \o dias

\* mutant: the "3 Meses" button carries 60 days
PlanDurationKeyboard_60 ==
    << CbPlanDuration(Dias1), CbPlanDuration(Dias7), CbPlanDuration(Dias15),
       CbPlanDuration(Dias30), CbPlanDuration(<<"6","0">>), CbPlanDuration(Dias180),
       CbPlanDuration(Dias365), CbPlanDuration(Dias9999) >>

\* the keyboard processar_preco_plano shows, row by row
PlanDurationKeyboard ==
    << CbPlanDuration(Dias1), CbPlanDuration(Dias7), CbPlanDuration(Dias15),
       CbPlanDuration(Dias30), CbPlanDuration(Dias90), CbPlanDuration(Dias180),
       CbPlanDuration(Dias365), CbPlanDuration(Dias9999) >>

\* a button that opens a link instead of sending callback data
UrlButton == <<"u","r","l">>

(***************************************************************************)
(* State                                                                   *)
(***************************************************************************)
\* Telegram ids of the users talking to the bot
Users == {101, 202}

VARIABLES
    user_data,   \* context.user_data of each user: a dict
    last,        \* the event handled last: user, handler, kind, data, error
    pre,         \* user_data of that user before the event
    out,         \* the messages the handler sent or edited, in order
    fluxo,       \* per user: the inputs of the add-plan flow in progress
    bot_data,    \* context.bot_data, the dict all users share
    now,         \* time.time(), in whole seconds
    db,          \* the committed rows of the MySQL tables
    objs,        \* the User objects held in memory
    call,        \* the model method called last, with the state before it
    usos,        \* per validation code: the attempts that found it redeemable
    provider,    \* the status the payment provider reports for a charge
    redis,       \* the Redis store: key -> JSON text and expiry time
    salvo,       \* per Redis key: the value last saved with success, its expiry
    vip,         \* one User's VIP fields: in the object and in its users row
    bots         \* the ManagedBot objects held in memory and the bot_media rows

vars == <<user_data, last, pre, out, fluxo, bot_data, now, db, objs, call, usos,
          provider, redis, salvo, vip, bots>>

\* the state the handlers and the models of user.py never touch
outside == <<provider, redis, salvo, vip, bots>>

\* codes gerar_codigo_validacao can draw: 8 characters of A-Z and 0-9
Codigo1 == <<"A","B","C","D","1","2","3","4">>

Codigo2 == <<"Z","X","9","0","Q","W","1","2">>

Codigos == {Codigo1, Codigo2}

\* time.time() when the bot starts
InitialTime == 1700000000

\* the MySQL tables before any row is written; a row's id is its position
EmptyDb == [users |-> <<>>, transactions |-> <<>>,
            managed_bots |-> <<>>, managed_groups |-> <<>>]

\* User(telegram_id): id None (0: AUTO_INCREMENT ids start at 1), balance 0.0
User(telegram_id) == [id |-> 0, telegram_id |-> telegram_id, balance |-> 0]

\* User.__init__: is_vip False, vip_until None (0); no users row yet
NoVip == [obj |-> [is_vip |-> FALSE, vip_until |-> 0],
          row |-> [is_vip |-> FALSE, vip_until |-> 0]]

\* no ManagedBot object built, bot_media empty
NoBots == [objs |-> EmptyDict, media |-> <<>>]

NoCall == [op |-> "none", obj |-> 0, amount |-> 0, fault |-> "none", ret |-> 0,
           pre_obj |-> User(0), pre_db |-> EmptyDb]

\* chat is the chat the event came from, bd is bot_data before the event
NoEvent == [user |-> 0, handler |-> "none", kind |-> "none", data |-> <<>>, error |-> "",
            chat |-> 0, bd |-> EmptyDict]

\* one reply_text / edit_message_text: which screen, what it shows, its buttons
Msg(m, a, b) == [msg |-> m, arg |-> a, buttons |-> b]

\* what a handler does: the dict it leaves, the messages, the exception raised
Result(ud, msgs, err) == [ud |-> ud, out |-> msgs, error |-> err]

(***************************************************************************)
(* handlers/menu_handler.py                                                *)
(***************************************************************************)
\* mutant: the menu clears the session
menu_callback_ClearsSession(ud) ==
    Result(Pop(Pop(ud, "waiting_for"), "new_plan"),
           << Msg("menu_principal", <<>>,
                  <<CbCriarBot, CbMeuSaldo, CbConvite, CbAdminVip, CbComoFunciona>>) >>,
           "")

menu_callback(ud) ==
    Result(ud,
           << Msg("menu_principal", <<>>,
                  <<CbCriarBot, CbMeuSaldo, CbConvite, CbAdminVip, CbComoFunciona>>) >>,
           "")

\* mutant: the tag is misspelt
criar_bot_callback_TagTypo(ud) ==
    Result(Put(ud, "waiting_for", "token"),
           << Msg("criar_bot", TokenExemplo, <<CbMenuPrincipal>>) >>,
           "")

criar_bot_callback(ud) ==
    Result(Put(ud, "waiting_for", "bot_token"),
           << Msg("criar_bot", TokenExemplo, <<CbMenuPrincipal>>) >>,
           "")

meu_saldo_callback(ud) ==
    Result(ud, << Msg("meu_saldo", <<>>, <<CbMenuPrincipal>>) >>, "")

convite_callback(ud) ==
    Result(ud, << Msg("convite", <<>>, <<CbMenuPrincipal>>) >>, "")

admin_vip_callback(ud) ==
    Result(ud, << Msg("admin_vip", <<>>, <<CbAtivarVip, CbMenuPrincipal>>) >>, "")

como_funciona_callback(ud) ==
    Result(ud, << Msg("como_funciona", <<>>, <<CbMenuPrincipal>>) >>, "")

(***************************************************************************)
(* handlers/start_handler.py, handlers/channel_handler.py                  *)
(***************************************************************************)
start_command(ud) ==
    Result(ud, << Msg("verificacao_necessaria", <<>>, <<UrlButton, CbVerificarCanal>>) >>, "")

\* what get_chat_member can answer; "TelegramError" is the lookup failing
MemberStatus ==
    {"member", "administrator", "creator", "restricted", "left", "kicked", "TelegramError"}

verificar_canal(ud, status) ==
    IF status = "TelegramError"
    THEN Result(ud, << Msg("erro_verificar_canal", <<>>, <<>>) >>, "")
    ELSE IF status \notin {"member", "administrator", "creator"}
    THEN Result(ud, << Msg("nao_entrou_no_canal", <<>>, <<UrlButton, CbVerificarCanal>>) >>, "")
    ELSE menu_callback(ud)


(***************************************************************************)
(* handlers/bot_handler.py                                                 *)
(***************************************************************************)
\* what dict.get returns for a missing key
None == "None"

\* context.user_data.get('waiting_for')
WaitingFor(ud) == Get(ud, "waiting_for", None)

\* bot_username = "SeuBot"
BotUsernameSimulado ==
    <<"S","e","u","B","o","t">>

\* the default of context.user_data.get('welcome_text', ...)
DefaultWelcomeText ==
    <<"O","l","a"," ","%","f","i","r","s","t","n","a","m","e","%",","," ","s","e","j","a"," ","b","e","m","-","v","i","n","d","o","!">>

\* mutant: the waiting_for check at the top is missing
verificar_token_bot_NoGuard(ud, text) ==
    LET ud1 == Pop(ud, "waiting_for")
    IN  IF ~TokenMatch(text)
        THEN Result(ud1, << Msg("token_invalido", TokenExemplo, <<>>) >>, "")
        ELSE Result(ud1,
                    << Msg("iniciando_bot", <<>>, <<>>),
                       Msg("bot_iniciado", BotUsernameSimulado,
                           <<UrlButton, CbConfigBot, CbMenuPrincipal>>) >>,
                    "")

verificar_token_bot(ud, text) ==
    IF ~(WaitingFor(ud) = "bot_token")
    THEN Result(ud, <<>>, "")
    ELSE LET ud1 == Pop(ud, "waiting_for")
         IN  IF ~TokenMatch(text)
             THEN Result(ud1, << Msg("token_invalido", TokenExemplo, <<>>) >>, "")
             ELSE Result(ud1,
                         << Msg("iniciando_bot", <<>>, <<>>),
                            Msg("bot_iniciado", BotUsernameSimulado,
                                <<UrlButton, CbConfigBot, CbMenuPrincipal>>) >>,
                         "")

iniciar_bot_usuario(ud) ==
    Result(ud,
           << Msg("menu_bot", Get(ud, "bot_username", BotUsernameSimulado),
                  <<CbConfigMensagens, CbConfigPushinpay, CbConfigCanal>>) >>,
           "")

configurar_mensagens(ud) ==
    Result(ud,
           << Msg("config_mensagens", <<>>,
                  <<CbConfigMidia, CbConfigTexto, CbConfigPlanos,
                    CbVisualizacaoCompleta, CbMenuBot>>) >>,
           "")

configurar_midia(ud) ==
    Result(Put(ud, "waiting_for", "media_upload"),
           << Msg("config_midia", <<>>, <<CbRemoverMidia, CbConfigMensagens>>) >>,
           "")

configurar_texto(ud) ==
    Result(Put(ud, "waiting_for", "welcome_text"),
           << Msg("config_texto", Get(ud, "welcome_text", DefaultWelcomeText),
                  <<CbConfigMensagens>>) >>,
           "")

configurar_planos(ud) ==
    Result(ud,
           << Msg("config_planos", Get(ud, "planos", <<>>),
                  <<CbAdicionarPlano, CbConfigMensagens>>) >>,
           "")

adicionar_plano(ud) ==
    Result(Put(Put(ud, "waiting_for", "plan_name"), "new_plan", EmptyDict),
           << Msg("adicionar_plano", <<>>, <<CbConfigPlanos>>) >>,
           "")

processar_nome_plano(ud, text) ==
    IF WaitingFor(ud) # "plan_name"
    THEN Result(ud, <<>>, "")
    ELSE IF ~Has(ud, "new_plan")
    THEN Result(ud, <<>>, "KeyError")
    ELSE Result(Put(Put(ud, "new_plan", Put(ud["new_plan"], "nome", text)),
                    "waiting_for", "plan_price"),
                << Msg("pedir_preco", <<>>, <<>>) >>,
                "")

processar_preco_plano(ud, text) ==
    IF WaitingFor(ud) # "plan_price"
    THEN Result(ud, <<>>, "")
    ELSE LET preco == FloatOf(Replace(text, ",", "."))
         IN  IF preco.kind = "error" \/ FloatLeZero(preco)
             THEN Result(ud, << Msg("preco_invalido", <<>>, <<>>) >>, "")
             ELSE IF ~Has(ud, "new_plan")
             THEN Result(ud, <<>>, "KeyError")
             ELSE Result(Put(Put(ud, "new_plan", Put(ud["new_plan"], "preco", preco)),
                             "waiting_for", "plan_duration"),
                         << Msg("pedir_duracao", <<>>, PlanDurationKeyboard) >>,
                         "")

\* mutant: the scratch plan is not removed at the end
processar_duracao_plano_KeepsScratch(ud, data) ==
    IF ~StartsWith(data, PlanDurationPrefix)
    THEN Result(ud, <<>>, "")
    ELSE LET duracao == IntOf(LastPart(data, "_"))
         IN  IF ~duracao.ok
             THEN Result(ud, <<>>, "ValueError")
             ELSE IF ~Has(ud, "new_plan")
             THEN Result(ud, <<>>, "KeyError")
             ELSE LET new_plan == Put(ud["new_plan"], "duracao", duracao.val)
                      ud1      == Put(ud, "new_plan", new_plan)
                  IN  IF ~Has(new_plan, "nome") \/ ~Has(new_plan, "preco")
                      THEN Result(ud1, <<>>, "KeyError")
                      ELSE Result(
                             Pop(Put(ud1, "planos",
                                     Append(Get(ud1, "planos", <<>>), new_plan)),
                                 "waiting_for"),
                             << Msg("plano_adicionado", new_plan,
                                    <<CbAdicionarPlano, CbConfigPlanos>>) >>,
                             "")

processar_duracao_plano(ud, data) ==
    IF ~StartsWith(data, PlanDurationPrefix)
    THEN Result(ud, <<>>, "")
    ELSE LET duracao == IntOf(LastPart(data, "_"))
         IN  IF ~duracao.ok
             THEN Result(ud, <<>>, "ValueError")
             ELSE IF ~Has(ud, "new_plan")
             THEN Result(ud, <<>>, "KeyError")
             ELSE LET new_plan == Put(ud["new_plan"], "duracao", duracao.val)
                      ud1      == Put(ud, "new_plan", new_plan)
                  IN  IF ~Has(new_plan, "nome") \/ ~Has(new_plan, "preco")
                      THEN Result(ud1, <<>>, "KeyError")
                      ELSE Result(
                             Pop(Pop(Put(ud1, "planos",
                                         Append(Get(ud1, "planos", <<>>), new_plan)),
                                     "waiting_for"),
                                 "new_plan"),
                             << Msg("plano_adicionado", new_plan,
                                    <<CbAdicionarPlano, CbConfigPlanos>>) >>,
                             "")

configurar_canal(ud) ==
    Result(ud,
           << Msg("config_canal", <<>>, <<CbGerarCodigoCanal, CbMenuBot>>) >>,
           "")


(***************************************************************************)
(* Handling one event                                                      *)
(***************************************************************************)
\* The add-plan flow as the user drives it: the 'add plan' press, then a name
\* text, a price text and a duration press, with no other event in between.
FluxoNext(f, h, data) ==
    IF h = "adicionar_plano" THEN <<data>>
    ELSE IF Len(f) = 1 /\ h = "processar_nome_plano" THEN Append(f, data)
    ELSE IF Len(f) = 2 /\ h = "processar_preco_plano" THEN Append(f, data)
    ELSE IF Len(f) = 3 /\ h = "processar_duracao_plano" THEN Append(f, data)
    ELSE <<>>

\* mutant: one dict is shared by all users
Handle_SharedSession(u, h, kind, data, r) ==
    /\ Len(Get(r.ud, "planos", <<>>)) <= MaxPlanos
    /\ user_data' = [v \in Users |-> r.ud]
    /\ last' = [user |-> u, handler |-> h, kind |-> kind, data |-> data,
                error |-> r.error, chat |-> u, bd |-> bot_data]
    /\ pre' = user_data[u]
    /\ out' = r.out
    /\ fluxo' = [fluxo EXCEPT ![u] = FluxoNext(@, h, data)]
    /\ UNCHANGED <<bot_data, now, db, objs, call, usos, outside>>

\* handler h runs to completion on an event of user u and leaves result r
Handle(u, h, kind, data, r) ==
    /\ Len(Get(r.ud, "planos", <<>>)) <= MaxPlanos
    /\ user_data' = [user_data EXCEPT ![u] = r.ud]
    /\ last' = [user |-> u, handler |-> h, kind |-> kind, data |-> data,
                error |-> r.error, chat |-> u, bd |-> bot_data]
    /\ pre' = user_data[u]
    /\ out' = r.out
    /\ fluxo' = [fluxo EXCEPT ![u] = FluxoNext(@, h, data)]
    /\ UNCHANGED <<bot_data, now, db, objs, call, usos, outside>>

Init ==
    /\ user_data = [u \in Users |-> EmptyDict]
    /\ last = NoEvent
    /\ pre = EmptyDict
    /\ out = <<>>
    /\ fluxo = [u \in Users |-> <<>>]
    /\ bot_data = EmptyDict
    /\ now = InitialTime
    /\ db = EmptyDb
    /\ objs = EmptyDict
    /\ call = NoCall
    /\ usos = [c \in Codigos |-> 0]
    /\ provider = "pending"
    /\ redis = EmptyDict
    /\ salvo = EmptyDict
    /\ vip = NoVip
    /\ bots = NoBots

(***************************************************************************)
(* Spec: every handler function, invoked directly                          *)
(***************************************************************************)
Call_start_command(u) ==
    Handle(u, "start_command", "command", <<"/","s","t","a","r","t">>,
           start_command(user_data[u]))

Call_verificar_canal(u, status) ==
    Handle(u, "verificar_canal", "callback", CbVerificarCanal,
           verificar_canal(user_data[u], status))

Call_menu_callback(u) ==
    Handle(u, "menu_callback", "callback", CbMenuPrincipal, menu_callback(user_data[u]))

Call_criar_bot_callback(u) ==
    Handle(u, "criar_bot_callback", "callback", CbCriarBot,
           criar_bot_callback(user_data[u]))

Call_meu_saldo_callback(u) ==
    Handle(u, "meu_saldo_callback", "callback", CbMeuSaldo,
           meu_saldo_callback(user_data[u]))

Call_convite_callback(u) ==
    Handle(u, "convite_callback", "callback", CbConvite, convite_callback(user_data[u]))

Call_admin_vip_callback(u) ==
    Handle(u, "admin_vip_callback", "callback", CbAdminVip,
           admin_vip_callback(user_data[u]))

Call_como_funciona_callback(u) ==
    Handle(u, "como_funciona_callback", "callback", CbComoFunciona,
           como_funciona_callback(user_data[u]))

Call_verificar_token_bot(u, text) ==
    Handle(u, "verificar_token_bot", "text", text,
           verificar_token_bot(user_data[u], text))

Call_iniciar_bot_usuario(u) ==
    Handle(u, "iniciar_bot_usuario", "callback", CbMenuBot,
           iniciar_bot_usuario(user_data[u]))

Call_configurar_mensagens(u) ==
    Handle(u, "configurar_mensagens", "callback", CbConfigMensagens,
           configurar_mensagens(user_data[u]))

Call_configurar_midia(u) ==
    Handle(u, "configurar_midia", "callback", CbConfigMidia,
           configurar_midia(user_data[u]))

Call_configurar_texto(u) ==
    Handle(u, "configurar_texto", "callback", CbConfigTexto,
           configurar_texto(user_data[u]))

Call_configurar_planos(u) ==
    Handle(u, "configurar_planos", "callback", CbConfigPlanos,
           configurar_planos(user_data[u]))

Call_adicionar_plano(u) ==
    Handle(u, "adicionar_plano", "callback", CbAdicionarPlano,
           adicionar_plano(user_data[u]))

Call_processar_nome_plano(u, text) ==
    Handle(u, "processar_nome_plano", "text", text,
           processar_nome_plano(user_data[u], text))

Call_processar_preco_plano(u, text) ==
    Handle(u, "processar_preco_plano", "text", text,
           processar_preco_plano(user_data[u], text))

Call_processar_duracao_plano(u, data) ==
    Handle(u, "processar_duracao_plano", "callback", data,
           processar_duracao_plano(user_data[u], data))

Call_configurar_canal(u) ==
    Handle(u, "configurar_canal", "callback", CbConfigCanal,
           configurar_canal(user_data[u]))

\* the user whose session Spec drives through every handler
Owner == 101

\* the texts sent in Spec: a well-formed token, a plan name and a price
Texts == {TokenValido, TxtMensal, Txt19Ponto90}

\* the presses processar_duracao_plano gets in Spec: two duration buttons and
\* a button of another screen
DuracaoPresses == {CbPlanDuration(Dias30), CbPlanDuration(Dias9999), CbConfigPlanos}

Next ==
    \E u \in {Owner} :
        \/ Call_start_command(u)
        \/ \E status \in MemberStatus : Call_verificar_canal(u, status)
        \/ Call_menu_callback(u)
        \/ Call_criar_bot_callback(u)
        \/ Call_meu_saldo_callback(u)
        \/ Call_convite_callback(u)
        \/ Call_admin_vip_callback(u)
        \/ Call_como_funciona_callback(u)
        \/ \E text \in Texts : Call_verificar_token_bot(u, text)
        \/ Call_iniciar_bot_usuario(u)
        \/ Call_configurar_mensagens(u)
        \/ Call_configurar_midia(u)
        \/ Call_configurar_texto(u)
        \/ Call_configurar_planos(u)
        \/ Call_adicionar_plano(u)
        \/ \E text \in Texts : Call_processar_nome_plano(u, text)
        \/ \E text \in Texts : Call_processar_preco_plano(u, text)
        \/ \E data \in DuracaoPresses : Call_processar_duracao_plano(u, data)
        \/ Call_configurar_canal(u)

Spec == Init /\ [][Next]_vars


(***************************************************************************)
(* SpecMain: events routed by the dispatcher main() sets up                *)
(***************************************************************************)
\* re.match of a pattern "^p$" against callback data
ReFullMatch(data, p) == data = p \/ data = p \o <<"\n">>

\* no registered handler takes the update
Unhandled(ud) == [handler |-> "unhandled", r |-> Result(ud, <<>>, "")]

Routed(h, r) == [handler |-> h, r |-> r]

\* the CallbackQueryHandlers of main(), tried in registration order
DispatchCallback(ud, data, status) ==
    IF ReFullMatch(data, CbVerificarCanal)
    THEN Routed("verificar_canal", verificar_canal(ud, status))
    ELSE IF ReFullMatch(data, CbMenuPrincipal)
    THEN Routed("menu_callback", menu_callback(ud))
    ELSE IF ReFullMatch(data, CbCriarBot)
    THEN Routed("criar_bot_callback", criar_bot_callback(ud))
    ELSE IF ReFullMatch(data, CbMeuSaldo)
    THEN Routed("meu_saldo_callback", meu_saldo_callback(ud))
    ELSE IF ReFullMatch(data, CbConvite)
    THEN Routed("convite_callback", convite_callback(ud))
    ELSE IF ReFullMatch(data, CbAdminVip)
    THEN Routed("admin_vip_callback", admin_vip_callback(ud))
    ELSE IF ReFullMatch(data, CbComoFunciona)
    THEN Routed("como_funciona_callback", como_funciona_callback(ud))
    ELSE IF ReFullMatch(data, CbConfigMensagens)
    THEN Routed("configurar_mensagens", configurar_mensagens(ud))
    ELSE IF ReFullMatch(data, CbConfigMidia)
    THEN Routed("configurar_midia", configurar_midia(ud))
    ELSE IF ReFullMatch(data, CbConfigTexto)
    THEN Routed("configurar_texto", configurar_texto(ud))
    ELSE IF ReFullMatch(data, CbConfigPlanos)
    THEN Routed("configurar_planos", configurar_planos(ud))
    ELSE IF ReFullMatch(data, CbConfigCanal)
    THEN Routed("configurar_canal", configurar_canal(ud))
    ELSE Unhandled(ud)

\* MessageHandler(Filters.text & ~Filters.command, verificar_token_bot) is the
\* only message handler: a text goes to it, a photo or video to nobody
DispatchMessage(ud, kind, text) ==
    IF kind = "text"
    THEN Routed("verificar_token_bot", verificar_token_bot(ud, text))
    ELSE Unhandled(ud)

\* every callback_data some keyboard of the bot carries
Buttons ==
    { CbVerificarCanal, CbMenuPrincipal, CbCriarBot, CbMeuSaldo, CbConvite,
      CbAdminVip, CbComoFunciona, CbAtivarVip, CbConfigBot, CbConfigMensagens,
      CbConfigPushinpay, CbConfigCanal, CbConfigMidia, CbConfigTexto,
      CbConfigPlanos, CbVisualizacaoCompleta, CbMenuBot, CbRemoverMidia,
      CbAdicionarPlano, CbGerarCodigoCanal }
    \cup { PlanDurationKeyboard[i] : i \in 1..Len(PlanDurationKeyboard) }

\* the file reference of a photo or video message, which has no text
MediaFile == <<"f","i","l","e">>

Receive_command(u) ==
    Handle(u, "start_command", "command", <<"/","s","t","a","r","t">>,
           start_command(user_data[u]))

Receive_callback(u, data, status) ==
    LET d == DispatchCallback(user_data[u], data, status)
    IN  Handle(u, d.handler, "callback", data, d.r)

Receive_text(u, text) ==
    LET d == DispatchMessage(user_data[u], "text", text)
    IN  Handle(u, d.handler, "text", text, d.r)

Receive_media(u) ==
    LET d == DispatchMessage(user_data[u], "media", MediaFile)
    IN  Handle(u, d.handler, "media", MediaFile, d.r)

\* the texts sent in SpecMain
MainTexts == {TokenValido, TokenExemplo, TxtMensal, Txt19Ponto90, TxtOla}

NextMain ==
    \E u \in Users :
        \/ Receive_command(u)
        \/ \E data \in Buttons, status \in MemberStatus : Receive_callback(u, data, status)
        \/ \E text \in MainTexts : Receive_text(u, text)
        \/ Receive_media(u)

SpecMain == Init /\ [][NextMain]_vars

(***************************************************************************)
(* SpecPreco: the add-plan flow with many price texts                      *)
(***************************************************************************)
PriceTexts ==
    { Txt19Ponto90, Txt19Virgula90, TxtZero, TxtMenos5, TxtAbc, TxtNan, TxtInf,
      Txt1e2, TxtMensal }

NextPreco ==
    \/ Call_adicionar_plano(Owner)
    \/ Call_processar_nome_plano(Owner, TxtMensal)
    \/ \E text \in PriceTexts : Call_processar_preco_plano(Owner, text)
    \/ Call_processar_duracao_plano(Owner, CbPlanDuration(Dias30))
    \/ Call_configurar_planos(Owner)

SpecPreco == Init /\ [][NextPreco]_vars

(***************************************************************************)
(* SpecDuracao: the add-plan flow with every duration button               *)
(***************************************************************************)
NextDuracao ==
    \/ Call_adicionar_plano(Owner)
    \/ Call_processar_nome_plano(Owner, TxtMensal)
    \/ Call_processar_preco_plano(Owner, Txt19Ponto90)
    \/ \E data \in Buttons : Call_processar_duracao_plano(Owner, data)
    \/ Call_configurar_planos(Owner)

SpecDuracao == Init /\ [][NextDuracao]_vars


(***************************************************************************)
(* Vocabulary of the properties                                            *)
(***************************************************************************)
\* the session of the user whose event was handled last
Session == user_data[last.user]

\* the tags the flow table names
WaitingTags ==
    {"bot_token", "welcome_text", "media_upload", "plan_name", "plan_price", "plan_duration"}

\* a text that, with a comma read as the decimal separator, is a decimal > 0
DecimalGreaterThanZero(text) ==
    LET f == FloatOf(Replace(text, ",", "."))
    IN  f.kind = "num" /\ ~f.neg /\ f.mant > 0

\* a price value that is finite and > 0
FinitePositive(f) == f.kind = "num" /\ ~f.neg /\ f.mant > 0

\* the day counts of the specification, 9999 standing for lifetime
AllowedDurations == {1, 7, 15, 30, 90, 180, 365, 9999}

Planos(ud) == Get(ud, "planos", <<>>)

FirstMsg == IF out = <<>> THEN "" ELSE out[1].msg

\* the price 19.90 as float() yields it
Preco19Ponto90 == [kind |-> "num", neg |-> FALSE, mant |-> 199, scale |-> 1]

(***************************************************************************)
(* C1 - C10                                                                *)
(***************************************************************************)
\* C1: after a back/cancel navigation callback (menu_callback,
\* configurar_mensagens, configurar_planos, configurar_canal) has been handled,
\* the user's waiting_for tag and scratch plan new_plan are both absent.
C1_BackClearsSession ==
    (last.handler \in {"menu_callback", "configurar_mensagens",
                       "configurar_planos", "configurar_canal"})
        => (WaitingFor(Session) = None /\ ~Has(Session, "new_plan"))

\* C2: a text that does not match the token format, handled by
\* verificar_token_bot while waiting_for = bot_token, is answered with the
\* invalid-token prompt and leaves waiting_for = bot_token.
C2_InvalidTokenStaysInBotToken ==
    (last.handler = "verificar_token_bot" /\ WaitingFor(pre) = "bot_token"
        /\ ~TokenMatch(last.data))
        => (FirstMsg = "token_invalido" /\ WaitingFor(Session) = "bot_token")

\* C3: when the user supplies the kind of input the active tag expects (a
\* media message for media_upload, a text for welcome_text, bot_token,
\* plan_name or plan_price, a duration press for plan_duration), a registered
\* handler consumes the event; for media_upload and welcome_text, which accept
\* any such input, waiting_for has left the tag once the event is handled.
C3_ExpectedInputIsConsumed ==
    /\ (last.kind = "media" /\ WaitingFor(pre) = "media_upload")
          => (last.handler # "unhandled" /\ WaitingFor(Session) # "media_upload")
    /\ (last.kind = "text" /\ WaitingFor(pre) = "welcome_text")
          => (last.handler # "unhandled" /\ WaitingFor(Session) # "welcome_text")
    /\ (last.kind = "text" /\ WaitingFor(pre) \in {"bot_token", "plan_name", "plan_price"})
          => last.handler # "unhandled"
    /\ (last.kind = "callback" /\ WaitingFor(pre) = "plan_duration"
          /\ StartsWith(last.data, PlanDurationPrefix))
          => last.handler # "unhandled"

\* the tag each tag-setting handler sets
TagSetBy ==
    [criar_bot_callback |-> "bot_token", configurar_midia |-> "media_upload",
     configurar_texto |-> "welcome_text", adicionar_plano |-> "plan_name"]

\* C4: every user has at most one waiting_for entry, its value is one of the
\* six tags (or the entry is absent), and a handler that sets a tag leaves
\* exactly its own tag, whatever tag was active before.
C4_OneValidTag ==
    /\ \A u \in Users :
          /\ DOMAIN user_data[u] \subseteq {"waiting_for", "new_plan", "planos"}
          /\ WaitingFor(user_data[u]) \in WaitingTags \cup {None}
    /\ (last.handler \in DOMAIN TagSetBy)
          => WaitingFor(Session) = TagSetBy[last.handler]

\* C4 witness: adicionar_plano ran while bot_token was active and replaced it
C4_Witness ==
    /\ last.handler = "adicionar_plano"
    /\ WaitingFor(pre) = "bot_token"
    /\ WaitingFor(Session) = "plan_name"

\* the tag each free-text handler answers to
OwnTag ==
    [verificar_token_bot |-> "bot_token", processar_nome_plano |-> "plan_name",
     processar_preco_plano |-> "plan_price"]

\* C5: a free-text handler invoked while waiting_for is not its own tag
\* (absent included) sends nothing, raises nothing and leaves the user's whole
\* session (waiting_for, new_plan, planos) as it was.
C5_ForeignTagIsNoOp ==
    (last.handler \in DOMAIN OwnTag /\ WaitingFor(pre) # OwnTag[last.handler])
        => (out = <<>> /\ last.error = "" /\ Session = pre)

\* C5 witness: processar_preco_plano got a text while plan_name was active
C5_Witness ==
    /\ last.handler = "processar_preco_plano"
    /\ WaitingFor(pre) = "plan_name"
    /\ Has(pre, "new_plan")
    /\ out = <<>>
    /\ Session = pre

\* C6: the flow 'add plan', name text n, valid price text p, duration press d
\* appends exactly one plan {nome n, preco float(p), duracao d} to the user's
\* plans and leaves waiting_for and new_plan absent.
C6_PlanFlowStoresOnePlan ==
    \A u \in Users :
        (/\ last.user = u
         /\ last.handler = "processar_duracao_plano"
         /\ Len(fluxo[u]) = 4
         /\ DecimalGreaterThanZero(fluxo[u][3])
         /\ StartsWith(fluxo[u][4], PlanDurationPrefix))
        => /\ Planos(user_data[u]) =
                Append(Planos(pre),
                       [nome |-> fluxo[u][2],
                        preco |-> FloatOf(Replace(fluxo[u][3], ",", ".")),
                        duracao |-> IntOf(LastPart(fluxo[u][4], "_")).val])
           /\ WaitingFor(user_data[u]) = None
           /\ ~Has(user_data[u], "new_plan")

\* C6 witness: Mensal / 19.90 / 30 has been stored
C6_Witness ==
    /\ fluxo[Owner] = <<CbAdicionarPlano, TxtMensal, Txt19Ponto90, CbPlanDuration(Dias30)>>
    /\ last.handler = "processar_duracao_plano"
    /\ Planos(user_data[Owner]) =
          << [nome |-> TxtMensal, preco |-> Preco19Ponto90, duracao |-> 30] >>

\* C7: a price text that is not a decimal > 0, handled by processar_preco_plano
\* while waiting_for = plan_price, is answered with the invalid-price prompt
\* and leaves waiting_for = plan_price and the scratch plan unchanged.
C7_InvalidPriceReprompts ==
    (last.handler = "processar_preco_plano" /\ WaitingFor(pre) = "plan_price"
        /\ ~DecimalGreaterThanZero(last.data))
        => (FirstMsg = "preco_invalido" /\ Session = pre)

\* every price held in the scratch plan or in the plan list of a session
StoredPrices(ud) ==
    (IF Has(ud, "new_plan") /\ Has(ud["new_plan"], "preco")
     THEN {ud["new_plan"]["preco"]} ELSE {})
    \cup {Planos(ud)[i]["preco"] : i \in 1..Len(Planos(ud))}

\* C8: processar_preco_plano accepts a text exactly when it is a decimal > 0
\* (comma or dot as separator), and every stored price is finite and > 0.
C8_PriceAcceptedIffDecimalPositive ==
    /\ (last.handler = "processar_preco_plano" /\ WaitingFor(pre) = "plan_price")
          => ((FirstMsg = "pedir_duracao") <=> DecimalGreaterThanZero(last.data))
    /\ \A u \in Users : \A f \in StoredPrices(user_data[u]) : FinitePositive(f)

\* C9: every plan in a user's plan list has a duration in
\* {1, 7, 15, 30, 90, 180, 365, 9999}.
C9_StoredDurationsAllowed ==
    \A u \in Users :
        \A i \in 1..Len(Planos(user_data[u])) :
            /\ Has(Planos(user_data[u])[i], "duracao")
            /\ Planos(user_data[u])[i]["duracao"] \in AllowedDurations

\* C9 witness: the lifetime button stored a plan
C9_Witness ==
    /\ last.handler = "processar_duracao_plano"
    /\ last.data = CbPlanDuration(Dias9999)
    /\ Len(Planos(user_data[Owner])) = 1
    /\ Planos(user_data[Owner])[1]["duracao"] = 9999

\* C10: a text message received while waiting_for = welcome_text becomes the
\* stored welcome text (the one configurar_texto shows as current) and leaves
\* waiting_for absent.
C10_WelcomeTextStored ==
    (last.kind = "text" /\ WaitingFor(pre) = "welcome_text")
        => /\ Get(Session, "welcome_text", DefaultWelcomeText) = last.data
           /\ WaitingFor(Session) = None


(***************************************************************************)
(* models/user.py: the balance and its ledger                              *)
(*                                                                         *)
(* Amounts are whole currency units.  One MySQL connection: w is the       *)
(* tables as the open transaction sees them, commit makes w the committed  *)
(* tables, rollback discards w.  fault names the SQL statement that raises *)
(* MySQLError in this call, if any.                                        *)
(***************************************************************************)
Faults == {"none", "ledger_insert", "users_write"}

\* the users row INSERT INTO users / UPDATE users writes for object obj
UserRow(obj) == [telegram_id |-> obj.telegram_id, balance |-> obj.balance]

\* the transactions row add_balance inserts
LedgerRow(obj, amount, type) ==
    [user_id |-> obj.telegram_id, amount |-> amount, type |-> type,
     status |-> "completed"]

\* what a model method leaves: the object, the committed tables, the open
\* transaction's view, the return value (False is 0)
Outcome(obj, d, w, ret) == [obj |-> obj, db |-> d, w |-> w, ret |-> ret]

\* mutant: the except branch of save does not roll back
User_save_NoRollback(obj, d, w, fault) ==
    IF fault = "users_write"
    THEN Outcome(obj, d, w, 0)
    ELSE IF obj.id = 0
    THEN LET w1 == [w EXCEPT !.users = Append(@, UserRow(obj))]
         IN  Outcome([obj EXCEPT !.id = Len(w1.users)], w1, w1, 1)
    ELSE LET w1 == IF obj.id \in DOMAIN w.users
                   THEN [w EXCEPT !.users[obj.id] = UserRow(obj)]
                   ELSE w
         IN  Outcome(obj, w1, w1, 1)

\* User.save(conn): INSERT when id is None, else UPDATE ... WHERE id; commit;
\* on MySQLError roll back and return False
User_save(obj, d, w, fault) ==
    IF fault = "users_write"
    THEN Outcome(obj, d, d, 0)
    ELSE IF obj.id = 0
    THEN LET w1 == [w EXCEPT !.users = Append(@, UserRow(obj))]
         IN  Outcome([obj EXCEPT !.id = Len(w1.users)], w1, w1, 1)
    ELSE LET w1 == IF obj.id \in DOMAIN w.users
                   THEN [w EXCEPT !.users[obj.id] = UserRow(obj)]
                   ELSE w
         IN  Outcome(obj, w1, w1, 1)

\* User.add_balance(conn, amount, transaction_type): the balance is raised in
\* memory first, the ledger row inserted, save() called with its result
\* ignored, then commit; only a MySQLError reaching add_balance returns False
add_balance(obj, d, amount, type, fault) ==
    LET obj1 == [obj EXCEPT !.balance = @ + amount]
    IN  IF fault = "ledger_insert"
        THEN Outcome(obj1, d, d, 0)
        ELSE LET w1 == [d EXCEPT !.transactions =
                                    Append(@, LedgerRow(obj, amount, type))]
                 transaction_id == Len(w1.transactions)
                 s == User_save(obj1, d, w1, fault)
             IN  Outcome(s.obj, s.w, s.w, transaction_id)

\* mutant: the guard rejects amount = balance as well
remove_balance_Strict(obj, d, amount, fault) ==
    IF obj.balance <= amount
    THEN Outcome(obj, d, d, 0)
    ELSE add_balance(obj, d, -amount, "withdrawal", fault)

\* User.remove_balance(conn, amount)
remove_balance(obj, d, amount, fault) ==
    IF obj.balance < amount
    THEN Outcome(obj, d, d, 0)
    ELSE add_balance(obj, d, -amount, "withdrawal", fault)

\* User.get_by_telegram_id(conn, telegram_id): the first matching row
get_by_telegram_id(d, telegram_id) ==
    LET rows == {i \in DOMAIN d.users : d.users[i].telegram_id = telegram_id}
        i == CHOOSE k \in rows : \A j \in rows : k <= j
    IN  [id |-> i, telegram_id |-> telegram_id, balance |-> d.users[i].balance]

(***************************************************************************)
(* SpecSaldo: one User object and its rows                                 *)
(***************************************************************************)
\* ledger rows written before the balance is no longer driven
MaxLedger == 2

\* largest balance, in either direction, before it is no longer driven
MaxSaldo == 10

\* the amounts callers pass: negative, zero, positive
Amounts == {-5, 0, 5}

\* the User objects a caller holds
ObjIds == {1}

\* a model method ran on object o and left outcome r
Called(o, op, amount, fault, r) ==
    /\ Len(r.db.transactions) <= MaxLedger
    /\ r.obj.balance <= MaxSaldo /\ -r.obj.balance <= MaxSaldo
    /\ objs' = Put(objs, o, r.obj)
    /\ db' = r.db
    /\ call' = [op |-> op, obj |-> o, amount |-> amount, fault |-> fault,
                ret |-> r.ret, pre_obj |-> objs[o], pre_db |-> db]
    /\ UNCHANGED <<user_data, last, pre, out, fluxo, bot_data, now, usos, outside>>

New_User(o, u) ==
    /\ ~Has(objs, o)
    /\ objs' = Put(objs, o, User(u))
    /\ call' = [op |-> "User", obj |-> o, amount |-> 0, fault |-> "none",
                ret |-> 1, pre_obj |-> User(u), pre_db |-> db]
    /\ UNCHANGED <<user_data, last, pre, out, fluxo, bot_data, now, db, usos, outside>>

Call_get_by_telegram_id(o, u) ==
    /\ \E i \in DOMAIN db.users : db.users[i].telegram_id = u
    /\ objs' = Put(objs, o, get_by_telegram_id(db, u))
    /\ call' = [op |-> "get_by_telegram_id", obj |-> o, amount |-> 0,
                fault |-> "none", ret |-> 1,
                pre_obj |-> Get(objs, o, User(u)), pre_db |-> db]
    /\ UNCHANGED <<user_data, last, pre, out, fluxo, bot_data, now, db, usos, outside>>

Call_save(o, fault) ==
    /\ Has(objs, o)
    /\ Called(o, "save", 0, fault, User_save(objs[o], db, db, fault))

Call_add_balance(o, amount, fault) ==
    /\ Has(objs, o)
    /\ Called(o, "add_balance", amount, fault,
              add_balance(objs[o], db, amount, "deposit", fault))

Call_remove_balance(o, amount, fault) ==
    /\ Has(objs, o)
    /\ Called(o, "remove_balance", amount, fault,
              remove_balance(objs[o], db, amount, fault))

NextSaldo ==
    \E o \in ObjIds :
        \/ New_User(o, Owner)
        \/ Call_get_by_telegram_id(o, Owner)
        \/ \E fault \in {"none", "users_write"} : Call_save(o, fault)
        \/ \E amount \in Amounts, fault \in Faults :
               \/ Call_add_balance(o, amount, fault)
               \/ Call_remove_balance(o, amount, fault)

SpecSaldo == Init /\ [][NextSaldo]_vars

(***************************************************************************)
(* context.bot_data: validation codes and payments                         *)
(***************************************************************************)
\* the attributes of a dict object; its keys are not attributes
DictAttributes ==
    {"clear", "copy", "fromkeys", "get", "items", "keys", "pop", "popitem",
     "setdefault", "update", "values"}

\* hasattr(d, name) for a dict d
HasAttr(d, name) == name \in DictAttributes

\* getattr(d, name, default) for a dict d: the bound method, or the default
GetAttr(d, name, default) == IF HasAttr(d, name) THEN name ELSE default

\* handlers/bot_handler.py imports os, logging, re and json: the name time is
\* not bound in that module
TimeImported == FALSE

\* what a handler using bot_data does: as Result, with the bot_data and the
\* clock it leaves
ResultB(ud, bd, t, msgs, err) ==
    [ud |-> ud, bd |-> bd, now |-> t, out |-> msgs, error |-> err]

CodigosValidacao(bd) == Get(bd, "codigos_validacao", EmptyDict)

\* bot_handler.gerar_codigo_canal with codigo drawn by gerar_codigo_validacao:
\* the table is set to {} whenever hasattr is false, then the entry is built,
\* and evaluating time.time() raises NameError before anything is stored
gerar_codigo_canal(ud, bd, u, codigo, t) ==
    LET bd1 == IF ~HasAttr(bd, "codigos_validacao")
               THEN Put(bd, "codigos_validacao", EmptyDict)
               ELSE bd
    IN  IF ~TimeImported
        THEN ResultB(ud, bd1, t, <<>>, "NameError")
        ELSE ResultB(ud,
                     Put(bd1, "codigos_validacao",
                         Put(CodigosValidacao(bd1), codigo,
                             [user_id |-> u, bot_id |-> Get(ud, "bot_id", 0),
                              expira |-> t + 3600])),
                     t,
                     << Msg("codigo_gerado", codigo, <<CbConfigCanal>>) >>,
                     "")

\* channel_handler.validar_codigo_canal on a message with this text: returns
\* at once when hasattr is false; else an expired code is popped, an unexpired
\* one is popped after its owner is notified and the chat gets a confirmation.
\* No row of managed_groups is written.
validar_codigo_canal(ud, bd, text, t) ==
    IF ~HasAttr(bd, "codigos_validacao")
    THEN ResultB(ud, bd, t, <<>>, "")
    ELSE LET codigos == CodigosValidacao(bd)
         IN  IF ~Has(codigos, text)
             THEN ResultB(ud, bd, t, <<>>, "")
             ELSE LET bd1 == Put(bd, "codigos_validacao", Pop(codigos, text))
                  IN  IF t > codigos[text].expira
                      THEN ResultB(ud, bd1, t, <<>>, "")
                      ELSE ResultB(ud, bd1, t,
                                   << Msg("vinculado_aviso",
                                          codigos[text].user_id, <<>>),
                                      Msg("vinculado_confirmacao", <<>>, <<>>) >>,
                                   "")

\* the code is in the table and has not expired at time t
Redeemable(bd, text, t) ==
    /\ Has(CodigosValidacao(bd), text)
    /\ t <= CodigosValidacao(bd)[text].expira

(***************************************************************************)
(* SpecCodigo: the channel validation codes                                *)
(***************************************************************************)
\* the instants at which events are driven: the start, one second later, the
\* second a code of the start expires, and the second after
Instants ==
    {InitialTime, InitialTime + 1, InitialTime + 3600, InitialTime + 3601}

\* attempts on one redeemable code that are counted
MaxUsos == 2

\* the group the code is sent in
Grupo == -1001

\* handler h, which uses bot_data, runs to completion and leaves result r
HandleB(u, chat, h, kind, data, r) ==
    /\ Len(Get(r.ud, "planos", <<>>)) <= MaxPlanos
    /\ user_data' = [user_data EXCEPT ![u] = r.ud]
    /\ last' = [user |-> u, handler |-> h, kind |-> kind, data |-> data,
                error |-> r.error, chat |-> chat, bd |-> bot_data]
    /\ pre' = user_data[u]
    /\ out' = r.out
    /\ fluxo' = [fluxo EXCEPT ![u] = FluxoNext(@, h, data)]
    /\ bot_data' = r.bd
    /\ now' = r.now
    /\ usos' = IF h = "validar_codigo_canal" /\ data \in Codigos
                    /\ Redeemable(bot_data, data, now)
               THEN [usos EXCEPT ![data] = @ + 1]
               ELSE usos
    /\ \A c \in Codigos : usos'[c] <= MaxUsos
    /\ UNCHANGED <<db, objs, call, outside>>

\* the clock advances to instant t between two events
Tick(t) ==
    /\ t > now
    /\ now' = t
    /\ last' = [NoEvent EXCEPT !.handler = "tick"]
    /\ pre' = EmptyDict
    /\ out' = <<>>
    /\ UNCHANGED <<user_data, fluxo, bot_data, db, objs, call, usos, outside>>

Call_gerar_codigo_canal(u, codigo) ==
    HandleB(u, u, "gerar_codigo_canal", "callback", CbGerarCodigoCanal,
            gerar_codigo_canal(user_data[u], bot_data, u, codigo, now))

Call_validar_codigo_canal(u, chat, text) ==
    HandleB(u, chat, "validar_codigo_canal", "text", text,
            validar_codigo_canal(user_data[u], bot_data, text, now))

\* the table as gerar_codigo_canal is written to leave it for the Owner at
\* the start (it raises before storing), so that validar_codigo_canal is also
\* applied to a stored code
StoredCode ==
    Put(EmptyDict, "codigos_validacao",
        Put(EmptyDict, Codigo1,
            [user_id |-> Owner, bot_id |-> 0, expira |-> InitialTime + 3600]))

InitCodigo ==
    /\ user_data = [u \in Users |-> EmptyDict]
    /\ last = NoEvent
    /\ pre = EmptyDict
    /\ out = <<>>
    /\ fluxo = [u \in Users |-> <<>>]
    /\ bot_data \in {EmptyDict, StoredCode}
    /\ now = InitialTime
    /\ db = EmptyDb
    /\ objs = EmptyDict
    /\ call = NoCall
    /\ usos = [c \in Codigos |-> 0]
    /\ provider = "pending"
    /\ redis = EmptyDict
    /\ salvo = EmptyDict
    /\ vip = NoVip
    /\ bots = NoBots

NextCodigo ==
    \/ Call_criar_bot_callback(Owner)
    \/ Call_configurar_canal(Owner)
    \/ \E codigo \in Codigos : Call_gerar_codigo_canal(Owner, codigo)
    \/ \E u \in Users, text \in Codigos \cup {TxtOla} :
           Call_validar_codigo_canal(u, Grupo, text)
    \/ \E t \in Instants : Tick(t)

SpecCodigo == InitCodigo /\ [][NextCodigo]_vars

(***************************************************************************)
(* handlers/payment_handler.py                                             *)
(***************************************************************************)
\* s.split(sep): the parts between the separators
RECURSIVE Split(_, _)
Split(s, sep) ==
    LET i == FirstIndex(s, {sep})
    IN  IF i = 0 THEN << s >>
        ELSE << SubSeq(s, 1, i - 1) >> \o Split(SubSeq(s, i + 1, Len(s)), sep)

DigitChar(d) == CHOOSE c \in Digit : DigitValue(c) = d

\* str(n) for n >= 0
RECURSIVE IntStr(_)
IntStr(n) ==
    IF n < 10 THEN << DigitChar(n) >>
    ELSE IntStr(n \div 10) \o << DigitChar(n % 10) >>

PagarPrefix == <<"p","a","g","a","r","_">>

CopyPixPrefix == <<"c","o","p","y","_","p","i","x","_">>

CheckPaymentPrefix ==
    <<"c","h","e","c","k","_","p","a","y","m","e","n","t","_">>

\* f"TX{int(time.time())}"
TransactionId(t) == <<"T","X">> \o IntStr(t)

\* the plan processar_pagamento charges: the first stored plan whose 'id'
\* (0 when the key is missing) equals plano_id, else the demonstration plan
PlanoDemonstracao(plano_id) ==
    [id |-> plano_id, nome |-> <<"P","l","a","n","o"," ","T","e","s","t","e">>,
     preco |-> Preco19Ponto90, duracao |-> 30]

PlanoEscolhido(ud, plano_id) ==
    LET planos  == Get(ud, "planos", <<>>)
        matches == {i \in DOMAIN planos : Get(planos[i], "id", 0) = plano_id}
    IN  IF matches = {} THEN PlanoDemonstracao(plano_id)
        ELSE planos[CHOOSE i \in matches : \A j \in matches : i <= j]

Pagamentos(bd) == Get(bd, "pagamentos", EmptyDict)

\* processar_pagamento: after time.sleep(1) the transaction id is made of the
\* clock; the table is set to {} whenever hasattr is false, then the pending
\* record is stored under the transaction id
processar_pagamento(ud, bd, u, data, t) ==
    IF ~StartsWith(data, PagarPrefix)
    THEN ResultB(ud, bd, t, <<>>, "")
    ELSE LET parsed == IntOf(Split(data, "_")[2])
         IN  IF ~parsed.ok
             THEN ResultB(ud, bd, t, << Msg("plano_invalido", <<>>, <<>>) >>, "")
             ELSE LET plano == PlanoEscolhido(ud, parsed.val)
                      t1 == t + 1
                      transaction_id == TransactionId(t1)
                      bd1 == IF ~HasAttr(bd, "pagamentos")
                             THEN Put(bd, "pagamentos", EmptyDict)
                             ELSE bd
                      bd2 == Put(bd1, "pagamentos",
                                 Put(Pagamentos(bd1), transaction_id,
                                     [user_id |-> u, plano_id |-> parsed.val,
                                      valor |-> plano.preco,
                                      status |-> "pending",
                                      created_at |-> t1]))
                  IN  ResultB(ud, bd2, t1,
                              << Msg("processando_pagamento", plano.nome, <<>>),
                                 Msg("pagamento_pix_gerado", plano.nome,
                                     << CopyPixPrefix \o transaction_id,
                                        CheckPaymentPrefix \o transaction_id,
                                        CbMenuPrincipal >>) >>,
                              "")

\* mutant: the table is read by key, as processar_pagamento writes it
verificar_pagamento_ByKey(ud, bd, data, t) ==
    IF ~StartsWith(data, CheckPaymentPrefix)
    THEN ResultB(ud, bd, t, <<>>, "")
    ELSE LET transaction_id == Split(data, "_")[3]
             pagamentos == Get(bd, "pagamentos", EmptyDict)
         IN  IF ~Has(pagamentos, transaction_id)
             THEN ResultB(ud, bd, t,
                          << Msg("pagamento_nao_encontrado", <<>>, <<>>) >>, "")
             ELSE ResultB(ud,
                          Put(bd, "pagamentos",
                              Put(pagamentos, transaction_id,
                                  [pagamentos[transaction_id]
                                      EXCEPT !.status = "approved"])),
                          t,
                          << Msg("pagamento_aprovado", <<>>,
                                 <<CbMenuPrincipal>>) >>,
                          "")

\* verificar_pagamento: the table is read with getattr, which yields the
\* default {} for a dict; a record found would be marked approved
verificar_pagamento(ud, bd, data, t) ==
    IF ~StartsWith(data, CheckPaymentPrefix)
    THEN ResultB(ud, bd, t, <<>>, "")
    ELSE LET transaction_id == Split(data, "_")[3]
             pagamentos == GetAttr(bd, "pagamentos", EmptyDict)
         IN  IF ~Has(pagamentos, transaction_id)
             THEN ResultB(ud, bd, t,
                          << Msg("pagamento_nao_encontrado", <<>>, <<>>) >>, "")
             ELSE ResultB(ud,
                          Put(bd, "pagamentos",
                              Put(pagamentos, transaction_id,
                                  [pagamentos[transaction_id]
                                      EXCEPT !.status = "approved"])),
                          t,
                          << Msg("pagamento_aprovado", <<>>,
                                 <<CbMenuPrincipal>>) >>,
                          "")

(***************************************************************************)
(* SpecPagamento: a plan is created, payments are requested and checked    *)
(***************************************************************************)
\* payment requests driven (each one sleeps a second)
MaxPagamentos == 3

Call_processar_pagamento(u, data) ==
    /\ now < InitialTime + MaxPagamentos
    /\ HandleB(u, u, "processar_pagamento", "callback", data,
               processar_pagamento(user_data[u], bot_data, u, data, now))

Call_verificar_pagamento(u, data) ==
    HandleB(u, u, "verificar_pagamento", "callback", data,
            verificar_pagamento(user_data[u], bot_data, data, now))

\* presses matching '^pagar_': the stored plan, another plan, no number
PagarData == { PagarPrefix \o <<"0">>, PagarPrefix \o <<"1">>,
               PagarPrefix \o TxtAbc }

\* the buttons of the screen shown last
ButtonsShown == IF out = <<>> THEN {}
                ELSE {out[Len(out)].buttons[i] : i \in DOMAIN out[Len(out)].buttons}

NextPagamento ==
    \/ Call_adicionar_plano(Owner)
    \/ Call_processar_nome_plano(Owner, TxtMensal)
    \/ Call_processar_preco_plano(Owner, Txt1e2)
    \/ Call_processar_duracao_plano(Owner, CbPlanDuration(Dias30))
    \/ \E u \in Users, data \in PagarData : Call_processar_pagamento(u, data)
    \/ \E u \in Users, data \in ButtonsShown \cup {CheckPaymentPrefix \o TransactionId(InitialTime + 1)} :
           Call_verificar_pagamento(u, data)

SpecPagamento == Init /\ [][NextPagamento]_vars

(***************************************************************************)
(* C11 - C20                                                               *)
(***************************************************************************)
\* rows of managed_bots as ManagedBot.save inserts them
BotsOf(owner, token) ==
    { i \in DOMAIN db.managed_bots :
        /\ db.managed_bots[i].owner_id = owner
        /\ db.managed_bots[i].bot_token = token }

\* C11: a text in the valid token format, handled while waiting_for =
\* bot_token, leaves a ManagedBot row owned by that user with that token in
\* the database, and waiting_for absent.
C11_ValidTokenPersistsBot ==
    (last.handler = "verificar_token_bot" /\ WaitingFor(pre) = "bot_token"
        /\ TokenMatch(last.data))
        => (/\ BotsOf(last.user, Strip(last.data)) # {}
            /\ WaitingFor(Session) = None)

\* the object the last model call ran on, and the balance persisted for it
CallObj == objs[call.obj]

Persisted(obj) ==
    IF obj.id \in DOMAIN db.users THEN db.users[obj.id].balance ELSE 0

BalanceCall == call.op \in {"add_balance", "remove_balance"}

\* the amount the last balance call adds to the balance
Delta == IF call.op = "remove_balance" THEN -call.amount ELSE call.amount

\* C12: remove_balance(amount) returns failure and leaves the balance and the
\* ledger as they were whenever amount > balance; otherwise, amount = balance
\* included, and no SQL statement failing, the balance in memory and in the
\* users row falls by exactly amount and exactly one ledger row with amount
\* -amount is appended.
C12_RemoveBalance ==
    (call.op = "remove_balance") =>
        /\ (call.amount > call.pre_obj.balance)
               => (call.ret = 0 /\ CallObj = call.pre_obj /\ db = call.pre_db)
        /\ (call.amount <= call.pre_obj.balance /\ call.fault = "none")
               => (/\ call.ret # 0
                   /\ CallObj.balance = call.pre_obj.balance - call.amount
                   /\ Persisted(CallObj) = call.pre_obj.balance - call.amount
                   /\ db.transactions =
                          Append(call.pre_db.transactions,
                                 LedgerRow(call.pre_obj, -call.amount,
                                           "withdrawal")))

\* remove_balance took the whole balance
C12_Witness ==
    /\ call.op = "remove_balance" /\ call.fault = "none"
    /\ call.amount > 0 /\ call.amount = call.pre_obj.balance
    /\ call.ret # 0 /\ CallObj.balance = 0

\* C13: after add_balance or remove_balance, whichever statement failed (the
\* transactions INSERT or the users write inside save), the committed tables
\* either are what they were, or hold both the new ledger row and the new
\* balance in the users row.
C13_BalanceAndLedgerAtomic ==
    BalanceCall =>
        \/ db = call.pre_db
        \/ /\ Len(db.transactions) = Len(call.pre_db.transactions) + 1
           /\ db.transactions[Len(db.transactions)].amount = Delta
           /\ CallObj.id \in DOMAIN db.users
           /\ db.users[CallObj.id].balance = call.pre_obj.balance + Delta

\* the users write inside save failed after the ledger row was inserted, and
\* neither is persisted
C13_Witness ==
    /\ call.op = "add_balance" /\ call.fault = "users_write"
    /\ call.amount # 0 /\ db = call.pre_db
    /\ Len(db.transactions) > 0

\* C14: when the ledger INSERT or the users write fails inside add_balance,
\* add_balance returns failure and the object's balance is what it was before
\* the call.
C14_FailureReportedBalanceRestored ==
    (call.op = "add_balance" /\ call.fault # "none")
        => (call.ret = 0 /\ CallObj.balance = call.pre_obj.balance)

\* C15: no sequence of add_balance and remove_balance with any amounts, from
\* balance 0, makes a balance negative, in memory or in the users table.
C15_BalanceNeverNegative ==
    /\ \A o \in DOMAIN objs : objs[o].balance >= 0
    /\ \A i \in DOMAIN db.users : db.users[i].balance >= 0

\* C16: after gerar_codigo_canal is handled for user u, the validation-code
\* table holds a code mapped to u's id and bot id with expiry exactly 3600 s
\* after the generation, and u's waiting_for is what it was.
C16_CodeStoredForOneHour ==
    (last.handler = "gerar_codigo_canal") =>
        /\ last.error = ""
        /\ \E c \in DOMAIN CodigosValidacao(bot_data) :
               CodigosValidacao(bot_data)[c] =
                   [user_id |-> last.user, bot_id |-> Get(pre, "bot_id", 0),
                    expira |-> now + 3600]
        /\ WaitingFor(Session) = WaitingFor(pre)

\* rows of managed_groups linking this chat to this bot
GroupsOf(chat, bot) ==
    { i \in DOMAIN db.managed_groups :
        /\ db.managed_groups[i].chat_id = chat
        /\ db.managed_groups[i].bot_id = bot }

ShownTransactionId == Split(out[Len(out)].buttons[2], "_")[3]

\* C20: after processar_pagamento has shown the payment screen, the payments
\* table holds, under the transaction id of the 'check_payment_<id>' button,
\* a pending record with the requesting user's id and the plan's price; and
\* verificar_pagamento, pressed for a transaction id the table holds, finds
\* the record.
C20_PaymentRecordedAndFound ==
    /\ (last.handler = "processar_pagamento" /\ last.error = ""
           /\ FirstMsg = "processando_pagamento")
           => (/\ Has(Pagamentos(bot_data), ShownTransactionId)
               /\ LET p == Pagamentos(bot_data)[ShownTransactionId]
                  IN  /\ p.status = "pending"
                      /\ p.user_id = last.user
                      /\ p.valor = PlanoEscolhido(pre, p.plano_id).preco)
    /\ (last.handler = "verificar_pagamento"
           /\ StartsWith(last.data, CheckPaymentPrefix)
           /\ Has(Pagamentos(last.bd), Split(last.data, "_")[3]))
           => (FirstMsg = "pagamento_aprovado")


(***************************************************************************)
(* SpecProvedor: payments while the provider's answer changes              *)
(***************************************************************************)
ProviderStatus == {"pending", "approved", "rejected", "canceled"}

\* the provider's status of the charge changes
Provider_reports(status) ==
    /\ status # provider
    /\ provider' = status
    /\ last' = [NoEvent EXCEPT !.handler = "provider"]
    /\ pre' = EmptyDict
    /\ out' = <<>>
    /\ UNCHANGED <<user_data, fluxo, bot_data, now, db, objs, call, usos,
                   redis, salvo, vip, bots>>

NextProvedor ==
    \/ Call_processar_pagamento(Owner, PagarPrefix \o <<"1">>)
    \/ \E u \in Users, data \in ButtonsShown \cup {CheckPaymentPrefix \o TransactionId(InitialTime + 1)} :
           Call_verificar_pagamento(u, data)
    \/ \E status \in ProviderStatus : Provider_reports(status)

SpecProvedor == Init /\ [][NextProvedor]_vars

(***************************************************************************)
(* SpecDois: two users, each in a flow of their own                        *)
(***************************************************************************)
NextDois ==
    \E u \in Users :
        \/ Call_criar_bot_callback(u)
        \/ Call_verificar_token_bot(u, TokenValido)
        \/ Call_adicionar_plano(u)
        \/ Call_processar_nome_plano(u, TxtMensal)
        \/ Call_processar_preco_plano(u, TxtAbc)
        \/ Call_menu_callback(u)
        \/ Call_gerar_codigo_canal(u, Codigo1)

SpecDois == Init /\ [][NextDois]_vars

(***************************************************************************)
(* SpecToken: the two token-format checks on many texts                    *)
(***************************************************************************)
\* utils/helpers.py is_valid_bot_token: bool(re.match(token_pattern, token))
is_valid_bot_token(token) == TokenMatch(token)

TokenSuffix == SubSeq(TokenValido, 11, Len(TokenValido))

Token123Short == <<"1","2","3",":","s","h","o","r","t">>

\* the texts checked: well-formed, followed by a newline, the example of the
\* prompts, too short, letters before the colon, a leading space, a 36th
\* character, no digit before the colon
TokenTexts ==
    { TokenValido, TokenValido \o <<"\n">>, TokenExemplo, Token123Short,
      <<"a","b","c",":">> \o TokenSuffix, <<" ">> \o TokenValido,
      TokenValido \o <<"x">>, <<":">> \o TokenSuffix }

\* Telegram delivers message texts without surrounding whitespace
DeliveredTokens == {t \in TokenTexts : Strip(t) = t}

\* a helper of utils/helpers.py was called on data and returned ret
HelperCalled(name, data, ret) ==
    /\ last' = [NoEvent EXCEPT !.handler = name, !.kind = "call", !.data = data]
    /\ call' = [NoCall EXCEPT !.op = name, !.ret = ret]
    /\ pre' = EmptyDict
    /\ out' = <<>>
    /\ UNCHANGED <<user_data, fluxo, bot_data, now, db, objs, usos, outside>>

Call_is_valid_bot_token(token) ==
    HelperCalled("is_valid_bot_token", token,
                 IF is_valid_bot_token(token) THEN 1 ELSE 0)

NextToken ==
    \/ \E u \in Users : Call_criar_bot_callback(u)
    \/ \E u \in Users, text \in DeliveredTokens : Call_verificar_token_bot(u, text)
    \/ \E token \in TokenTexts : Call_is_valid_bot_token(token)

SpecToken == Init /\ [][NextToken]_vars

(***************************************************************************)
(* utils/helpers.py: state kept in Redis                                   *)
(*                                                                         *)
(* A Python value is a record of its type and its content; json.dumps and  *)
(* json.loads are computed on the JSON text.                               *)
(***************************************************************************)
PyNone == [t |-> "None", v |-> <<>>]

PyTrue == [t |-> "bool", v |-> <<"T","r","u","e">>]

PyFalse == [t |-> "bool", v |-> <<"F","a","l","s","e">>]

PyStr(chars) == [t |-> "str", v |-> chars]

PyList(items) == [t |-> "list", v |-> items]

PyTuple(items) == [t |-> "tuple", v |-> items]

\* ", ".join(items)
RECURSIVE JoinItems(_)
JoinItems(items) ==
    IF Len(items) = 0 THEN <<>>
    ELSE IF Len(items) = 1 THEN << items[1] >>
    ELSE << items[1], ",", " " >> \o JoinItems(Tail(items))

\* json.dumps: a tuple is written as a JSON array, like a list
JsonDumps(x) ==
    CASE x.t = "None" -> <<"n","u","l","l">>
      [] x.t = "bool" -> LowerText(x.v)
      [] x.t = "str"  -> <<"\"">> \o x.v \o <<"\"">>
      [] x.t \in {"list", "tuple"} -> <<"[">> \o JoinItems(x.v) \o <<"]">>

\* the values callers save, and the values json.loads can yield for them
RedisValues == { PyStr(<<"b","o","t","_","t","o","k","e","n">>),
                 PyTuple(<<"1","2">>) }

JsonNative ==
    { PyNone, PyTrue, PyFalse, PyStr(<<"b","o","t","_","t","o","k","e","n">>),
      PyList(<<"1","2">>) }

\* json.loads: the value whose JSON text this is
JsonLoads(text) == CHOOSE x \in JsonNative : JsonDumps(x) = text

\* f"user:{user_id}:{key}"
StateKey(user_id, key) ==
    <<"u","s","e","r",":">> \o IntStr(user_id) \o <<":">> \o key

\* f"temp:{key}"
TempKey(key) == <<"t","e","m","p",":">> \o key

\* what the store does when the operation fails: redis raises ConnectionError
RedisFaults == {"none", "ConnectionError"}

\* what a helper leaves: the store, the return value, the exception raised
RedisOutcome(r, ret, err) == [redis |-> r, ret |-> ret, error |-> err]

\* redis_conn.get at time t: the text, unless absent or expired
RedisGet(r, rkey, t) ==
    IF Has(r, rkey) /\ t < r[rkey].exp THEN r[rkey].val ELSE <<>>

save_state_redis(r, user_id, key, value, ttl, t, fault) ==
    IF fault # "none"
    THEN RedisOutcome(r, PyFalse, "")
    ELSE RedisOutcome(Put(r, StateKey(user_id, key),
                          [val |-> JsonDumps(value), exp |-> t + ttl]),
                      PyTrue, "")

\* mutant: the exception of the store is not caught
get_state_redis_NoCatch(r, user_id, key, t, fault) ==
    IF fault # "none"
    THEN RedisOutcome(r, PyNone, fault)
    ELSE LET value == RedisGet(r, StateKey(user_id, key), t)
         IN  IF value # <<>>
             THEN RedisOutcome(r, JsonLoads(value), "")
             ELSE RedisOutcome(r, PyNone, "")

get_state_redis(r, user_id, key, t, fault) ==
    IF fault # "none"
    THEN RedisOutcome(r, PyNone, "")
    ELSE LET value == RedisGet(r, StateKey(user_id, key), t)
         IN  IF value # <<>>
             THEN RedisOutcome(r, JsonLoads(value), "")
             ELSE RedisOutcome(r, PyNone, "")

delete_state_redis(r, user_id, key, fault) ==
    IF fault # "none"
    THEN RedisOutcome(r, PyFalse, "")
    ELSE RedisOutcome(Pop(r, StateKey(user_id, key)), PyTrue, "")

set_temp_data(r, key, value, ttl, t, fault) ==
    IF fault # "none"
    THEN RedisOutcome(r, PyFalse, "")
    ELSE RedisOutcome(Put(r, TempKey(key),
                          [val |-> JsonDumps(value), exp |-> t + ttl]),
                      PyTrue, "")

get_temp_data(r, key, t, fault) ==
    IF fault # "none"
    THEN RedisOutcome(r, PyNone, "")
    ELSE LET value == RedisGet(r, TempKey(key), t)
         IN  IF value # <<>>
             THEN RedisOutcome(r, JsonLoads(value), "")
             ELSE RedisOutcome(r, PyNone, "")

(***************************************************************************)
(* SpecRedis: the five helpers, a store that may fail, a clock             *)
(***************************************************************************)
KeyS == <<"s">>

Key202S == <<"2","0","2",":","s">>

\* the (user, key) pairs whose state is saved
RedisPairs == { <<101, KeyS>>, <<202, KeyS>>, <<101, Key202S>> }

\* a helper ran for user_id and key with outcome o; sv is what salvo becomes
RedisCalled(name, user_id, key, fault, o, sv) ==
    /\ redis' = o.redis
    /\ salvo' = sv
    /\ last' = [NoEvent EXCEPT !.handler = name, !.kind = "call",
                               !.user = user_id, !.data = key,
                               !.error = o.error]
    /\ call' = [NoCall EXCEPT !.op = name, !.fault = fault, !.ret = o.ret]
    /\ pre' = EmptyDict
    /\ out' = <<>>
    /\ UNCHANGED <<user_data, fluxo, bot_data, now, db, objs, usos, provider,
                   vip, bots>>

Call_save_state_redis(p, value, fault) ==
    RedisCalled("save_state_redis", p[1], p[2], fault,
                save_state_redis(redis, p[1], p[2], value, 3600, now, fault),
                IF fault = "none"
                THEN Put(salvo, p, [value |-> value, exp |-> now + 3600])
                ELSE salvo)

Call_get_state_redis(p, fault) ==
    RedisCalled("get_state_redis", p[1], p[2], fault,
                get_state_redis(redis, p[1], p[2], now, fault), salvo)

Call_delete_state_redis(p, fault) ==
    RedisCalled("delete_state_redis", p[1], p[2], fault,
                delete_state_redis(redis, p[1], p[2], fault),
                IF fault = "none" THEN Pop(salvo, p) ELSE salvo)

Call_set_temp_data(key, value, fault) ==
    RedisCalled("set_temp_data", 0, key, fault,
                set_temp_data(redis, key, value, 1800, now, fault), salvo)

Call_get_temp_data(key, fault) ==
    RedisCalled("get_temp_data", 0, key, fault,
                get_temp_data(redis, key, now, fault), salvo)

NextRedis ==
    \/ \E p \in RedisPairs, fault \in RedisFaults :
           \/ \E value \in RedisValues : Call_save_state_redis(p, value, fault)
           \/ Call_get_state_redis(p, fault)
           \/ Call_delete_state_redis(p, fault)
    \/ \E fault \in RedisFaults :
           \/ \E value \in RedisValues : Call_set_temp_data(KeyS, value, fault)
           \/ Call_get_temp_data(KeyS, fault)
    \/ Tick(InitialTime + 3600)

SpecRedis == Init /\ [][NextRedis]_vars

(***************************************************************************)
(* C21 - C30                                                               *)
(***************************************************************************)
\* transaction ids whose record is approved
Approved(bd) ==
    {tid \in DOMAIN Pagamentos(bd) : Pagamentos(bd)[tid].status = "approved"}

C22_MenuOnlyBehindGate ==
    (/\ last.handler # "none"
     /\ \/ FirstMsg = "menu_principal"
        \/ (Has(Session, "waiting_for") /\ WaitingFor(Session) # WaitingFor(pre)))
        => last.handler = "verificar_canal"

\* users rows with this telegram_id
UsersOf(t) == {i \in DOMAIN db.users : db.users[i].telegram_id = t}

\* C23: after /start is handled for Telegram user t, exactly one users row
\* with telegram_id t exists, the channel-membership gate is shown and
\* waiting_for is absent.
C23_StartCreatesOneUser ==
    (last.handler = "start_command")
        => (/\ Cardinality(UsersOf(last.user)) = 1
            /\ FirstMsg = "verificacao_necessaria"
            /\ WaitingFor(Session) = None)

RenderHandlers ==
    {"menu_callback", "meu_saldo_callback", "convite_callback",
     "admin_vip_callback", "como_funciona_callback", "configurar_mensagens",
     "configurar_planos", "configurar_canal"}

\* the screen handler h renders from session ud
Render(h, ud) ==
    CASE h = "menu_callback"          -> menu_callback(ud)
      [] h = "meu_saldo_callback"     -> meu_saldo_callback(ud)
      [] h = "convite_callback"       -> convite_callback(ud)
      [] h = "admin_vip_callback"     -> admin_vip_callback(ud)
      [] h = "como_funciona_callback" -> como_funciona_callback(ud)
      [] h = "configurar_mensagens"   -> configurar_mensagens(ud)
      [] h = "configurar_planos"      -> configurar_planos(ud)
      [] h = "configurar_canal"       -> configurar_canal(ud)

C26_SecondTextIsNoOp ==
    [][(/\ last.handler = "verificar_token_bot"
        /\ WaitingFor(pre) = "bot_token"
        /\ last'.handler = "verificar_token_bot"
        /\ last'.user = last.user)
           => (out' = <<>> /\ user_data' = user_data)]_vars

\* a second well-formed token arrived after the first was processed
C26_Witness ==
    /\ last.handler = "verificar_token_bot"
    /\ TokenMatch(last.data)
    /\ ~Has(pre, "waiting_for")
    /\ out = <<>>
    /\ Session = pre

\* one or more digits, a colon, exactly 35 characters of [A-Za-z0-9_-], and
\* nothing before or after
ExactTokenFormat(t) ==
    \E k \in 1..Len(t) :
        /\ Len(t) = k + 36
        /\ \A i \in 1..k : t[i] \in Digit
        /\ t[k + 1] = ":"
        /\ \A i \in (k + 2)..Len(t) : t[i] \in TokenChar

\* verificar_token_bot took the text as a token
TakenAsToken == FirstMsg = "iniciando_bot"

\* C27: is_valid_bot_token(t), and the check inside verificar_token_bot,
\* accept t exactly when t is digits, a colon and exactly 35 characters of
\* [A-Za-z0-9_-] with nothing before or after; and the two checks agree.
C27_TokenFormatExact ==
    /\ (last.handler = "is_valid_bot_token")
           => ((call.ret = 1) <=> ExactTokenFormat(last.data))
    /\ (last.handler = "verificar_token_bot" /\ WaitingFor(pre) = "bot_token")
           => (/\ TakenAsToken <=> ExactTokenFormat(last.data)
               /\ TakenAsToken <=> is_valid_bot_token(last.data))

\* the part before the first colon has a character that is not a digit
NonDigitBeforeColon(t) ==
    LET i == FirstIndex(t, {":"})
    IN  i > 0 /\ \E j \in 1..(i - 1) : t[j] \notin Digit

\* C28: the token validator accepts the example token of the prompts,
\* 123456789:ABCDefGhIJKlmNoPQRsTUVwxyZ, and rejects 123:short and every
\* token whose part before the colon is not all digits.
C28_ExampleTokenAccepted ==
    (last.handler = "is_valid_bot_token")
        => (/\ (last.data = TokenExemplo) => (call.ret = 1)
            /\ (last.data = Token123Short) => (call.ret = 0)
            /\ NonDigitBeforeColon(last.data) => (call.ret = 0))

RedisHelpers ==
    {"save_state_redis", "get_state_redis", "delete_state_redis",
     "set_temp_data", "get_temp_data"}

\* C29: the five Redis helpers never raise; when the store operation fails
\* they return False (save, delete, set) or None (get).
C29_RedisHelpersNeverRaise ==
    (last.handler \in RedisHelpers)
        => (/\ last.error = ""
            /\ (call.fault # "none") => (call.ret \in {PyFalse, PyNone}))

\* a get fails while a live value is stored, and the caller sees None
C29_Witness ==
    /\ last.handler = "get_state_redis" /\ call.fault = "ConnectionError"
    /\ RedisGet(redis, StateKey(last.user, last.data), now) # <<>>
    /\ call.ret = PyNone /\ last.error = ""

\* the value last saved with success for pair p and still within its TTL
LiveValue(p) ==
    IF Has(salvo, p) /\ now < salvo[p].exp THEN salvo[p].value ELSE PyNone

\* what get_state_redis reads for pair p now
ReadNow(p) == get_state_redis(redis, p[1], p[2], now, "none").ret

\* the last save or delete, done once more on the store it left, changes
\* nothing
RepeatIsNoOp ==
    /\ (last.handler = "save_state_redis" /\ call.fault = "none")
           => \E value \in RedisValues :
                  /\ salvo[<<last.user, last.data>>].value = value
                  /\ save_state_redis(redis, last.user, last.data, value,
                                      3600, now, "none").redis = redis
    /\ (last.handler = "delete_state_redis" /\ call.fault = "none")
           => delete_state_redis(redis, last.user, last.data, "none").redis
                  = redis

\* C30 as stated: get_state_redis returns, for every (user, key), the very
\* value of the most recent save within its TTL and None after a delete;
\* repeating a save or a delete changes nothing; no operation changes what
\* is read for another (user, key).
C30_LastWriteWins ==
    /\ \A p \in RedisPairs : ReadNow(p) = LiveValue(p)
    /\ RepeatIsNoOp


(***************************************************************************)
(* SpecSaldoDois: two User objects loaded for the same user                *)
(***************************************************************************)
\* the User objects two callers hold
ObjIdsDois == {1, 2}

\* the amount each balance call moves
AmountsDois == {5}

NextSaldoDois ==
    \/ New_User(1, Owner)
    \/ Call_save(1, "none")
    \/ \E o \in ObjIdsDois :
           \/ Call_get_by_telegram_id(o, Owner)
           \/ \E amount \in AmountsDois :
                  \/ Call_add_balance(o, amount, "none")
                  \/ Call_remove_balance(o, amount, "none")

SpecSaldoDois == Init /\ [][NextSaldoDois]_vars

(***************************************************************************)
(* models/user.py: the VIP period                                          *)
(*                                                                         *)
(* vip holds the is_vip and vip_until of one User object and of its users  *)
(* row; vip_until None / NULL is 0, a datetime is its second.              *)
(***************************************************************************)
\* timedelta(days=days), in seconds
Timedelta(days) == days * 86400

\* User.activate_vip(conn, days) at time t: an active period with an expiry
\* is extended, anything else becomes a period of days from t; then save(),
\* whose users write may fail
activate_vip(v, days, t, fault) ==
    LET obj1 == IF v.obj.is_vip /\ v.obj.vip_until # 0 /\ v.obj.vip_until > t
                THEN [v.obj EXCEPT !.vip_until = @ + Timedelta(days)]
                ELSE [is_vip |-> TRUE, vip_until |-> t + Timedelta(days)]
    IN  IF fault = "users_write"
        THEN [vip |-> [obj |-> obj1, row |-> v.row], ret |-> 0]
        ELSE [vip |-> [obj |-> obj1, row |-> obj1], ret |-> 1]

(***************************************************************************)
(* SpecVip: activate_vip on a loaded user, while time passes               *)
(***************************************************************************)
\* days from the start after which a VIP period is no longer extended
MaxVipDias == 70

\* the users rows a User is loaded from: never VIP, VIP until the tenth day,
\* VIP with no expiry
VipRows ==
    { [is_vip |-> FALSE, vip_until |-> 0],
      [is_vip |-> TRUE, vip_until |-> InitialTime + Timedelta(10)],
      [is_vip |-> TRUE, vip_until |-> 0] }

\* the periods callers activate
VipDias == {1, 30}

\* the instants at which calls are made: the start, day 5, day 40
VipInstants == {InitialTime + Timedelta(5), InitialTime + Timedelta(40)}

InitVip ==
    /\ user_data = [u \in Users |-> EmptyDict]
    /\ last = NoEvent
    /\ pre = EmptyDict
    /\ out = <<>>
    /\ fluxo = [u \in Users |-> <<>>]
    /\ bot_data = EmptyDict
    /\ now = InitialTime
    /\ db = EmptyDb
    /\ objs = EmptyDict
    /\ call = NoCall
    /\ usos = [c \in Codigos |-> 0]
    /\ provider = "pending"
    /\ redis = EmptyDict
    /\ salvo = EmptyDict
    /\ \E row \in VipRows : vip = [obj |-> row, row |-> row]
    /\ bots = NoBots

Call_activate_vip(days, fault) ==
    LET r == activate_vip(vip, days, now, fault)
    IN  /\ r.vip.obj.vip_until <= InitialTime + Timedelta(MaxVipDias)
        /\ vip' = r.vip
        /\ call' = [op |-> "activate_vip", obj |-> 1, amount |-> days,
                    fault |-> fault, ret |-> r.ret, pre_obj |-> vip.obj,
                    pre_db |-> [row |-> vip.row, t |-> now]]
        /\ UNCHANGED <<user_data, last, pre, out, fluxo, bot_data, now, db,
                       objs, usos, provider, redis, salvo, bots>>

NextVip ==
    \/ \E days \in VipDias, fault \in {"none", "users_write"} :
           Call_activate_vip(days, fault)
    \/ \E t \in VipInstants : Tick(t)

SpecVip == InitVip /\ [][NextVip]_vars

(***************************************************************************)
(* models/managed_bot.py                                                   *)
(*                                                                         *)
(* The rows of managed_bots are in db, the rows of bot_media and the       *)
(* ManagedBot objects in bots.  Each method runs one transaction: a        *)
(* MySQLError raised by a statement is caught, rolled back and reported by *)
(* the return value False (0).                                             *)
(***************************************************************************)
\* ManagedBot(owner_id, bot_token): id None (0)
ManagedBot(owner_id, bot_token) ==
    [id |-> 0, owner_id |-> owner_id, bot_token |-> bot_token]

\* the managed_bots row the INSERT of save writes
ManagedBotRow(obj) == [owner_id |-> obj.owner_id, bot_token |-> obj.bot_token]

\* the unique key on managed_bots.bot_token: an INSERT of a stored token
\* raises IntegrityError, a MySQLError
DuplicateEntry(d, token) ==
    \E i \in DOMAIN d.managed_bots : d.managed_bots[i].bot_token = token

\* what a ManagedBot method leaves: the object, the committed tables, the
\* bot_media rows, the return value, the exception raised
BotOutcome(obj, d, media, ret, err) ==
    [obj |-> obj, db |-> d, media |-> media, ret |-> ret, error |-> err]

\* mutant: the IntegrityError of the INSERT is not caught
ManagedBot_save_NoCatch(obj, d, media, fault) ==
    IF fault = "bots_write"
    THEN BotOutcome(obj, d, media, 0, "")
    ELSE IF obj.id = 0
    THEN IF DuplicateEntry(d, obj.bot_token)
         THEN BotOutcome(obj, d, media, 0, "IntegrityError")
         ELSE LET d1 == [d EXCEPT !.managed_bots = Append(@, ManagedBotRow(obj))]
              IN  BotOutcome([obj EXCEPT !.id = Len(d1.managed_bots)],
                             d1, media, 1, "")
    ELSE BotOutcome(obj, d, media, 1, "")

\* ManagedBot.save(conn): INSERT when id is None, else UPDATE of username,
\* pushinpay token and welcome text WHERE id; commit; on MySQLError roll back
\* and return False
ManagedBot_save(obj, d, media, fault) ==
    IF fault = "bots_write"
    THEN BotOutcome(obj, d, media, 0, "")
    ELSE IF obj.id = 0
    THEN IF DuplicateEntry(d, obj.bot_token)
         THEN BotOutcome(obj, d, media, 0, "")
         ELSE LET d1 == [d EXCEPT !.managed_bots = Append(@, ManagedBotRow(obj))]
              IN  BotOutcome([obj EXCEPT !.id = Len(d1.managed_bots)],
                             d1, media, 1, "")
    ELSE BotOutcome(obj, d, media, 1, "")

\* ManagedBot.get_by_token(conn, token): the first matching row as an object;
\* the guard of the call makes sure there is one
ManagedBot_get_by_token(d, token) ==
    LET rows == {i \in DOMAIN d.managed_bots : d.managed_bots[i].bot_token = token}
        i == CHOOSE k \in rows : \A j \in rows : k <= j
    IN  [id |-> i, owner_id |-> d.managed_bots[i].owner_id, bot_token |-> token]

\* the bot_media rows of bot bot_id, oldest first
MediaRows(media, bot_id) == SelectSeq(media, LAMBDA row : row.bot_id = bot_id)

\* mutant: the DELETE stays when the INSERT fails
set_media_NoRollback(obj, d, media, file_id, media_type, fault) ==
    LET kept == SelectSeq(media, LAMBDA row : row.bot_id # obj.id)
    IN  IF fault = "media_delete"
        THEN BotOutcome(obj, d, media, 0, "")
        ELSE IF fault = "media_insert"
        THEN BotOutcome(obj, d, kept, 0, "")
        ELSE BotOutcome(obj, d,
                        Append(kept, [bot_id |-> obj.id, file_id |-> file_id,
                                      media_type |-> media_type]),
                        1, "")

\* ManagedBot.set_media(conn, file_id, media_type): DELETE the rows of the
\* bot, INSERT the new row, commit; on MySQLError roll back and return False
set_media(obj, d, media, file_id, media_type, fault) ==
    LET kept == SelectSeq(media, LAMBDA row : row.bot_id # obj.id)
    IN  IF fault \in {"media_delete", "media_insert"}
        THEN BotOutcome(obj, d, media, 0, "")
        ELSE BotOutcome(obj, d,
                        Append(kept, [bot_id |-> obj.id, file_id |-> file_id,
                                      media_type |-> media_type]),
                        1, "")

\* no row: fetchone() gives None
NoMedia == [bot_id |-> 0, file_id |-> "", media_type |-> ""]

\* ManagedBot.get_media(conn): the newest row of the bot, or None
get_media(obj, media) ==
    LET rows == MediaRows(media, obj.id)
    IN  IF rows = <<>> THEN NoMedia ELSE rows[Len(rows)]

(***************************************************************************)
(* SpecBot: two ManagedBot objects, their rows and their media             *)
(***************************************************************************)
BotObjIds == {1, 2}

BotTokens == {TokenValido, TokenExemplo}

\* file_id and media_type of the media callers set
Medias == { <<"file1", "photo">>, <<"file2", "video">> }

\* a ManagedBot method ran on object o with argument arg and left outcome r
BotCalled(o, op, arg, fault, r) ==
    /\ bots' = [objs |-> Put(bots.objs, o, r.obj), media |-> r.media]
    /\ db' = r.db
    /\ call' = [op |-> op, obj |-> o, amount |-> 0, fault |-> fault,
                ret |-> r.ret, pre_obj |-> Get(bots.objs, o, r.obj),
                pre_db |-> [managed_bots |-> db.managed_bots,
                            media |-> bots.media, arg |-> arg]]
    /\ last' = [NoEvent EXCEPT !.handler = op, !.kind = "call",
                               !.error = r.error]
    /\ pre' = EmptyDict
    /\ out' = <<>>
    /\ UNCHANGED <<user_data, fluxo, bot_data, now, objs, usos, provider,
                   redis, salvo, vip>>

New_ManagedBot(o, owner, token) ==
    /\ ~Has(bots.objs, o)
    /\ BotCalled(o, "ManagedBot", token, "none",
                 BotOutcome(ManagedBot(owner, token), db, bots.media, 1, ""))

Call_ManagedBot_get_by_token(o, token) ==
    /\ ~Has(bots.objs, o)
    /\ DuplicateEntry(db, token)
    /\ BotCalled(o, "get_by_token", token, "none",
                 BotOutcome(ManagedBot_get_by_token(db, token), db,
                            bots.media, 1, ""))

Call_ManagedBot_save(o, fault) ==
    /\ Has(bots.objs, o)
    /\ BotCalled(o, "ManagedBot_save", bots.objs[o].bot_token, fault,
                 ManagedBot_save(bots.objs[o], db, bots.media, fault))

Call_set_media(o, m, fault) ==
    /\ Has(bots.objs, o)
    /\ bots.objs[o].id # 0
    /\ BotCalled(o, "set_media", m, fault,
                 set_media(bots.objs[o], db, bots.media, m[1], m[2], fault))

Call_get_media(o) ==
    /\ Has(bots.objs, o)
    /\ bots.objs[o].id # 0
    /\ BotCalled(o, "get_media", get_media(bots.objs[o], bots.media), "none",
                 BotOutcome(bots.objs[o], db, bots.media, 1, ""))

NextBot ==
    \E o \in BotObjIds :
        \/ \E owner \in Users, token \in BotTokens : New_ManagedBot(o, owner, token)
        \/ \E token \in BotTokens : Call_ManagedBot_get_by_token(o, token)
        \/ \E fault \in {"none", "bots_write"} : Call_ManagedBot_save(o, fault)
        \/ \E m \in Medias, fault \in {"none", "media_delete", "media_insert"} :
               Call_set_media(o, m, fault)
        \/ Call_get_media(o)

SpecBot == Init /\ [][NextBot]_vars

(***************************************************************************)
(* C31 - C40                                                               *)
(***************************************************************************)
PlanTags == {"plan_name", "plan_price", "plan_duration"}

\* C32: the scratch plan exists only while a plan-creation flow is in
\* progress: a user whose waiting_for is absent or is not plan_name,
\* plan_price or plan_duration has no new_plan.
C32_ScratchOnlyInPlanFlow ==
    \A u \in Users :
        (WaitingFor(user_data[u]) \notin PlanTags) => ~Has(user_data[u], "new_plan")

\* C33: a duration press handled by processar_duracao_plano while waiting_for
\* is not plan_duration stores no plan and leaves waiting_for and the scratch
\* plan exactly as they were.
C33_StaleDurationIsNoOp ==
    (/\ last.handler = "processar_duracao_plano"
     /\ StartsWith(last.data, PlanDurationPrefix)
     /\ WaitingFor(pre) # "plan_duration")
        => (/\ Planos(Session) = Planos(pre)
            /\ WaitingFor(Session) = WaitingFor(pre)
            /\ Has(Session, "new_plan") = Has(pre, "new_plan")
            /\ Has(pre, "new_plan") => (Session["new_plan"] = pre["new_plan"]))

\* preco > 0 on floats: false for nan, true for +inf
FloatGtZero(f) ==
    CASE f.kind = "nan" -> FALSE
      [] f.kind = "inf" -> ~f.neg
      [] OTHER -> ~f.neg /\ f.mant > 0

\* C37: whenever waiting_for = plan_price the scratch plan exists and has a
\* name; whenever waiting_for = plan_duration it has a name and a price > 0;
\* and every plan of a plan list has name, price and duration.
C37_ScratchHoldsWhatStepNeeds ==
    \A u \in Users :
        LET ud == user_data[u]
        IN  /\ (WaitingFor(ud) = "plan_price")
                   => (Has(ud, "new_plan") /\ Has(ud["new_plan"], "nome"))
            /\ (WaitingFor(ud) = "plan_duration")
                   => (/\ Has(ud, "new_plan")
                       /\ Has(ud["new_plan"], "nome")
                       /\ Has(ud["new_plan"], "preco")
                       /\ FloatGtZero(ud["new_plan"]["preco"]))
            /\ \A i \in 1..Len(Planos(ud)) :
                   /\ Has(Planos(ud)[i], "nome")
                   /\ Has(Planos(ud)[i], "preco")
                   /\ Has(Planos(ud)[i], "duracao")

\* the plan id a 'pagar_<id>' press carries
PlanoId(data) == IntOf(Split(data, "_")[2])

\* the stored plans of ud that plan id identifies, as the handler looks them up
PlanosComId(ud, plano_id) ==
    {i \in DOMAIN Planos(ud) : Get(Planos(ud)[i], "id", 0) = plano_id}

\* C34: processar_pagamento creates a payment record only for a plan id that
\* identifies one of the configured plans, with that plan's price as amount;
\* for a plan id that matches no plan it reports an error and creates no
\* payment record.
C34_PaymentOnlyForConfiguredPlan ==
    (/\ last.handler = "processar_pagamento"
     /\ StartsWith(last.data, PagarPrefix)
     /\ PlanoId(last.data).ok)
        => IF PlanosComId(pre, PlanoId(last.data).val) # {}
           THEN /\ Has(Pagamentos(bot_data), TransactionId(now))
                /\ \E i \in PlanosComId(pre, PlanoId(last.data).val) :
                       Pagamentos(bot_data)[TransactionId(now)].valor
                           = Planos(pre)[i]["preco"]
           ELSE /\ FirstMsg = "plano_invalido"
                /\ Pagamentos(bot_data) = Pagamentos(last.bd)

\* C38: a successful processar_pagamento stores its record under a
\* transaction id that was not in the payments table, and every record the
\* table held before is still there, unchanged.
C38_ExistingPaymentsKept ==
    (last.handler = "processar_pagamento" /\ FirstMsg = "processando_pagamento")
        => (/\ ~Has(Pagamentos(last.bd), ShownTransactionId)
            /\ \A tx \in DOMAIN Pagamentos(last.bd) :
                   /\ Has(Pagamentos(bot_data), tx)
                   /\ Pagamentos(bot_data)[tx] = Pagamentos(last.bd)[tx])

\* C35: generating a validation code adds one entry to the validation-code
\* table and leaves every code stored before and still unexpired in place and
\* redeemable.
C35_OtherCodesKept ==
    (last.handler = "gerar_codigo_canal") =>
        /\ \E c \in DOMAIN CodigosValidacao(bot_data) :
               c \notin DOMAIN CodigosValidacao(last.bd)
        /\ \A c \in DOMAIN CodigosValidacao(last.bd) :
               Redeemable(last.bd, c, now)
                   => (/\ Redeemable(bot_data, c, now)
                       /\ CodigosValidacao(bot_data)[c] = CodigosValidacao(last.bd)[c])

\* the sum of the amounts of the ledger rows of user t among the first n rows
RECURSIVE LedgerSum(_, _)
LedgerSum(t, n) ==
    IF n = 0 THEN 0
    ELSE LedgerSum(t, n - 1)
         + (IF db.transactions[n].user_id = t THEN db.transactions[n].amount ELSE 0)

\* C36: for every user the persisted balance equals the sum of the amounts of
\* the user's ledger rows, after any sequence of successful add_balance and
\* remove_balance calls, also when they are made through two User objects
\* loaded for the same user.
C36_BalanceIsLedgerSum ==
    \A i \in DOMAIN db.users :
        db.users[i].balance
            = LedgerSum(db.users[i].telegram_id, Len(db.transactions))

\* the VIP fields x are of a VIP as get_all_vip selects one at time t, and of
\* one with no expiry
ActiveVip(x, t) == x.is_vip /\ (x.vip_until = 0 \/ x.vip_until > t)

ForeverVip(x) == x.is_vip /\ x.vip_until = 0

\* validity b does not end before validity a, both seen at time t
EndsNoEarlier(a, b, t) ==
    \/ ~ActiveVip(a, t)
    \/ ForeverVip(b)
    \/ /\ ActiveVip(b, t) /\ ~ForeverVip(a)
       /\ b.vip_until >= a.vip_until

\* C39: activate_vip(days) with days > 0 never makes the VIP validity end
\* earlier than before: an active VIP with an expiry moves forward by exactly
\* days, a non-VIP or expired VIP gets now + days, and a VIP with no expiry
\* does not acquire one.
C39_ActivateVipNeverShortens ==
    (call.op = "activate_vip" /\ call.amount > 0) =>
        LET p == call.pre_obj
            t == call.pre_db.t
        IN  /\ EndsNoEarlier(p, vip.obj, t)
            /\ EndsNoEarlier(call.pre_db.row, vip.row, t)
            /\ (ActiveVip(p, t) /\ ~ForeverVip(p))
                   => (vip.obj.vip_until = p.vip_until + Timedelta(call.amount))
            /\ (~ActiveVip(p, t))
                   => (vip.obj = [is_vip |-> TRUE,
                                  vip_until |-> t + Timedelta(call.amount)])
            /\ ForeverVip(p) => ForeverVip(vip.obj)
            /\ (call.fault = "none") => (vip.row = vip.obj)

\* C31: no two persisted managed bots have the same bot_token; saving a new
\* bot whose token is already stored returns False, adds no row and raises
\* nothing.
C31_BotTokenUnique ==
    /\ \A i, j \in DOMAIN db.managed_bots :
           (i # j) => (db.managed_bots[i].bot_token # db.managed_bots[j].bot_token)
    /\ (/\ call.op = "ManagedBot_save"
        /\ call.pre_obj.id = 0
        /\ \E i \in DOMAIN call.pre_db.managed_bots :
               call.pre_db.managed_bots[i].bot_token = call.pre_obj.bot_token)
           => (/\ call.ret = 0
               /\ last.error = ""
               /\ db.managed_bots = call.pre_db.managed_bots)

\* a new bot with a stored token was saved, without a failing statement other
\* than the duplicate, and rejected
C31_Witness ==
    /\ call.op = "ManagedBot_save" /\ call.fault = "none"
    /\ call.pre_obj.id = 0 /\ call.ret = 0
    /\ Len(db.managed_bots) = 1
    /\ db.managed_bots[1].bot_token = call.pre_obj.bot_token

\* the bot_media rows of the bot the last call ran on
MediaOfCallBot == MediaRows(bots.media, bots.objs[call.obj].id)

\* C40: after any sequence of set_media calls on a bot, successful or failed,
\* bot_media holds at most one row for the bot, the media of the latest
\* successful call; a failed set_media leaves the stored media in place.
C40_OneMediaLatestWins ==
    /\ \A o \in DOMAIN bots.objs :
           Len(MediaRows(bots.media, bots.objs[o].id)) <= 1
    /\ (call.op = "set_media") =>
           /\ (call.ret = 0) <=> (call.fault # "none")
           /\ (call.ret # 0)
                  => (/\ MediaOfCallBot =
                            << [bot_id |-> bots.objs[call.obj].id,
                                file_id |-> call.pre_db.arg[1],
                                media_type |-> call.pre_db.arg[2]] >>
                      /\ get_media(bots.objs[call.obj], bots.media)
                             = MediaOfCallBot[1])
           /\ (call.ret = 0) => (bots.media = call.pre_db.media)

\* the INSERT of set_media failed on a bot that had a media, and the media is
\* still there
C40_Witness ==
    /\ call.op = "set_media" /\ call.fault = "media_insert" /\ call.ret = 0
    /\ Len(MediaOfCallBot) = 1
    /\ MediaOfCallBot[1].file_id # call.pre_db.arg[1]

=============================================================================
